---- MODULE Spec2Model ----
(***************************************************************************)
(* Quarterly series extension engine of the InsightHub dashboard           *)
(* (frontend lib/time: parseQuarter, formatQuarter, nextQuarter,           *)
(* averageRatio, projectNextValue, extendSeriesToYear), the yearly         *)
(* aggregation of the Forecasting view, and the App's upload handlers,     *)
(* metrics effect and training-poll effect.                                *)
(*                                                                         *)
(* Strings are sequences of one-character strings, so that parsing and     *)
(* formatting are computed character by character.  JavaScript numbers are *)
(* records: a finite number is an exact fraction n/d in lowest terms, and  *)
(* NaN, +Infinity, -Infinity and undefined are values of their own.        *)
(* Arrays live in a heap and are reached through references, so that a     *)
(* push through an alias is visible to every holder of the array.          *)
(***************************************************************************)
EXTENDS Integers, Sequences, FiniteSets, TLC

VARIABLES
  heap,      \* array reference -> contents
  base,      \* the `base` argument: references of its arrays, ci, forecast
  opts,      \* the `opts` argument: mlForecast, targetYear, maxFutureQuarters
  loc,       \* the call's local array references (labels, estimate, ...)
  ctx,       \* the call's scalar locals computed before the loop
  pointer,   \* loop variable `pointer`
  added,     \* loop variable `added`
  pc,        \* "start" | "loop" | "done" | "error"
  exit,      \* how the call left: "none" | "empty" | "noanchor" | "while" | "cap" | "year" | "throw"
  call,      \* 1: the call on the caller's base; 2: the call on the first result
  input0,    \* contents of the base arrays when the current call began
  first,     \* contents of the first call's result, once it returned
  fn,        \* the function that is called
  arg,       \* the argument of a call of parseQuarter, nextQuarter, averageRatio, ...
  res,       \* what that call returned, once it has
  file,         \* App state `file`: whether a file is chosen
  data,         \* App state `data`: 0 for null, else which UploadResponse object it is
  loading,      \* App state `loading`
  derived,      \* App state `derived`: "null", or the filters whose /metrics response it is
  filters,      \* App state `filters`, as JSON.stringify gives it
  training,     \* App state `training`: "null", "empty", "running" or "done"
  trainingSets, \* the number of setTraining calls so far, modulo 2
  uploading,    \* uploadFile requests in flight
  sampling,     \* fetches of /sample.csv in flight
  metricsDeps,  \* the dependencies the metrics effect last ran with
  requests,     \* the /metrics requests made, in order
  pollDeps,     \* the dependencies the training-poll effect last ran with
  instances     \* the instances of the training-poll effect, in order of creation

appVars == <<file, data, loading, derived, filters, training, trainingSets, uploading,
             sampling, metricsDeps, requests, pollDeps, instances>>

vars == <<heap, base, opts, loc, ctx, pointer, added, pc, exit, call, input0, first,
          fn, arg, res, appVars>>

----------------------------------------------------------------------------
(* JavaScript numbers *)

Num(k) == [t |-> "num", n |-> k, d |-> 1]
NaN == [t |-> "nan", n |-> 0, d |-> 1]
PosInf == [t |-> "inf", n |-> 1, d |-> 1]
NegInf == [t |-> "inf", n |-> -1, d |-> 1]
Undefined == [t |-> "undef", n |-> 0, d |-> 1]

IsFinite(x) == x.t = "num"

AbsInt(k) == IF k < 0 THEN -k ELSE k

RECURSIVE Gcd(_, _)
Gcd(a, b) == IF b = 0 THEN a ELSE Gcd(b, a % b)

\* the fraction n/d (d # 0) in lowest terms with a positive denominator
Frac(n, d) ==
  LET g == Gcd(AbsInt(n), AbsInt(d))
      s == IF d < 0 THEN -1 ELSE 1
  IN [t |-> "num", n |-> (s * n) \div g, d |-> (s * d) \div g]

\* sign of a number that is not NaN: -1, 0, 1
Sign(x) == IF x.n < 0 THEN -1 ELSE IF x.n > 0 THEN 1 ELSE 0

Neg(x) == IF x.t = "num" THEN Frac(-x.n, x.d)
          ELSE IF x.t = "inf" THEN [x EXCEPT !.n = -x.n]
          ELSE NaN

\* a + b
Add(a, b) ==
  IF a.t \in {"nan", "undef"} \/ b.t \in {"nan", "undef"} THEN NaN
  ELSE IF a.t = "inf" /\ b.t = "inf" THEN (IF a.n = b.n THEN a ELSE NaN)
  ELSE IF a.t = "inf" THEN a
  ELSE IF b.t = "inf" THEN b
  ELSE Frac(a.n * b.d + b.n * a.d, a.d * b.d)

\* a - b
Sub(a, b) == Add(a, Neg(b))

\* a * b
Mul(a, b) ==
  IF a.t \in {"nan", "undef"} \/ b.t \in {"nan", "undef"} THEN NaN
  ELSE IF a.t = "inf" \/ b.t = "inf"
    THEN (IF Sign(a) * Sign(b) = 0 THEN NaN
          ELSE IF Sign(a) * Sign(b) > 0 THEN PosInf ELSE NegInf)
  ELSE Frac(a.n * b.n, a.d * b.d)

\* a / b for finite a and finite non-zero b
Div(a, b) == Frac(a.n * b.d, a.d * b.n)

\* a < b for numbers that are not NaN
Less(a, b) ==
  IF a.t = "inf" THEN a.n < 0 /\ ~(b.t = "inf" /\ b.n < 0)
  ELSE IF b.t = "inf" THEN b.n > 0
  ELSE a.n * b.d < b.n * a.d

\* Math.max(a, b)
MathMax(a, b) ==
  IF a.t \in {"nan", "undef"} \/ b.t \in {"nan", "undef"} THEN NaN
  ELSE IF Less(a, b) THEN b ELSE a

\* Math.min(a, b)
MathMin(a, b) ==
  IF a.t \in {"nan", "undef"} \/ b.t \in {"nan", "undef"} THEN NaN
  ELSE IF Less(b, a) THEN b ELSE a

\* Math.abs(a)
MathAbs(a) == IF a.t = "num" THEN Frac(AbsInt(a.n), a.d)
              ELSE IF a.t = "inf" THEN PosInf ELSE NaN

\* Math.floor(a) and Math.ceil(a)
MathFloor(a) == IF a.t = "num" THEN Num(a.n \div a.d) ELSE IF a.t = "inf" THEN a ELSE NaN
MathCeil(a) == IF a.t = "num" THEN Num(-((-a.n) \div a.d)) ELSE IF a.t = "inf" THEN a ELSE NaN

\* JavaScript truthiness of a number or undefined
Truthy(x) == x.t = "inf" \/ (x.t = "num" /\ x.n # 0)

\* x ?? dflt
Coalesce(x, dflt) == IF x.t = "undef" THEN dflt ELSE x

\* arr[i] with a 0-based index: undefined outside the array
At(arr, i) == IF i >= 0 /\ i < Len(arr) THEN arr[i + 1] ELSE Undefined

----------------------------------------------------------------------------
(* Strings *)

Digits == {"0", "1", "2", "3", "4", "5", "6", "7", "8", "9"}
Letters == {"a", "b", "c", "d", "e", "f", "g", "h", "i", "j", "k", "l", "m",
            "n", "o", "p", "q", "r", "s", "t", "u", "v", "w", "x", "y", "z",
            "A", "B", "C", "D", "E", "F", "G", "H", "I", "J", "K", "L", "M",
            "N", "O", "P", "Q", "R", "S", "T", "U", "V", "W", "X", "Y", "Z"}
IsDigit(c) == c \in Digits
\* \s
IsSpace(c) == c = " "
\* [-\/\s]
IsSep(c) == c \in {"-", "/", " "}
\* \w
IsWord(c) == c \in Digits \cup Letters \cup {"_"}

DigitVal(c) ==
  CASE c = "0" -> 0 [] c = "1" -> 1 [] c = "2" -> 2 [] c = "3" -> 3 [] c = "4" -> 4
    [] c = "5" -> 5 [] c = "6" -> 6 [] c = "7" -> 7 [] c = "8" -> 8 [] c = "9" -> 9

DigitChar(k) ==
  CASE k = 0 -> "0" [] k = 1 -> "1" [] k = 2 -> "2" [] k = 3 -> "3" [] k = 4 -> "4"
    [] k = 5 -> "5" [] k = 6 -> "6" [] k = 7 -> "7" [] k = 8 -> "8" [] k = 9 -> "9"

\* the decimal digits of a non-negative integer, as `${k}` prints them
RECURSIVE IntToStr(_)
IntToStr(k) == IF k < 10 THEN <<DigitChar(k)>> ELSE IntToStr(k \div 10) \o <<DigitChar(k % 10)>>

\* an array element that is not a string: labels[i] of a hole, or undefined
UndefinedLabel == <<"undefined">>

\* String.prototype.trim
RECURSIVE TrimLeft(_)
TrimLeft(s) == IF s # <<>> /\ IsSpace(s[1]) THEN TrimLeft(Tail(s)) ELSE s
RECURSIVE TrimRight(_)
TrimRight(s) == IF s # <<>> /\ IsSpace(s[Len(s)]) THEN TrimRight(SubSeq(s, 1, Len(s) - 1)) ELSE s
Trim(s) == TrimRight(TrimLeft(s))

\* first position >= i of s that holds no whitespace (\s*)
RECURSIVE SkipSpace(_, _)
SkipSpace(s, i) == IF i <= Len(s) /\ IsSpace(s[i]) THEN SkipSpace(s, i + 1) ELSE i

\* first position >= i of s that holds no separator (\s*(?:[-\/\s]*)\s*)
RECURSIVE SkipSep(_, _)
SkipSep(s, i) == IF i <= Len(s) /\ IsSep(s[i]) THEN SkipSep(s, i + 1) ELSE i

\* (\d{4}) at position i
FourDigits(s, i) == i + 3 <= Len(s) /\ \A k \in i..(i + 3) : IsDigit(s[k])
YearAt(s, i) == 1000 * DigitVal(s[i]) + 100 * DigitVal(s[i + 1])
                + 10 * DigitVal(s[i + 2]) + DigitVal(s[i + 3])

NoMatch == [ok |-> FALSE, q |-> 0, year |-> 0]

\* first alternative of QUARTER_REGEX tried at position i: Q\s*(\d)\s*(?:[-\/\s]*)\s*(\d{4})
MatchQFirst(s, i) ==
  IF ~(i <= Len(s) /\ s[i] \in {"Q", "q"}) THEN NoMatch
  ELSE LET j == SkipSpace(s, i + 1) IN
    IF ~(j <= Len(s) /\ IsDigit(s[j])) THEN NoMatch
    ELSE LET k == SkipSep(s, j + 1) IN
      IF FourDigits(s, k) THEN [ok |-> TRUE, q |-> DigitVal(s[j]), year |-> YearAt(s, k)]
      ELSE NoMatch

\* second alternative tried at position i: \b(\d{4})\s*(?:[-\/\s]*)Q\s*(\d)
MatchYearFirst(s, i) ==
  IF ~(FourDigits(s, i) /\ (i = 1 \/ ~IsWord(s[i - 1]))) THEN NoMatch
  ELSE LET k == SkipSep(s, i + 4) IN
    IF ~(k <= Len(s) /\ s[k] \in {"Q", "q"}) THEN NoMatch
    ELSE LET j == SkipSpace(s, k + 1) IN
      IF j <= Len(s) /\ IsDigit(s[j]) THEN [ok |-> TRUE, q |-> DigitVal(s[j]), year |-> YearAt(s, i)]
      ELSE NoMatch

\* QUARTER_REGEX.exec(s): the leftmost match, the first alternative tried first
RECURSIVE RegexExec(_, _)
RegexExec(s, i) ==
  IF i > Len(s) THEN NoMatch
  ELSE IF MatchQFirst(s, i).ok THEN MatchQFirst(s, i)
  ELSE IF MatchYearFirst(s, i).ok THEN MatchYearFirst(s, i)
  ELSE RegexExec(s, i + 1)

NullQuarter == [year |-> 0, quarter |-> 0, key |-> 0]

\* a mis-parse that lets any quarter digit 1..9 through
parseQuarterAnyDigit(label) ==
  IF label = <<>> \/ label = UndefinedLabel THEN NullQuarter
  ELSE LET m == RegexExec(Trim(label), 1) IN
    IF ~m.ok THEN NullQuarter
    ELSE IF m.year = 0 \/ m.q = 0 THEN NullQuarter
    ELSE [year |-> m.year, quarter |-> m.q, key |-> m.year * 4 + (m.q - 1)]

\* a parse that counts the quarter of the key from 1 instead of 0
parseQuarterKeyFromOne(label) ==
  IF label = <<>> \/ label = UndefinedLabel THEN NullQuarter
  ELSE LET m == RegexExec(Trim(label), 1) IN
    IF ~m.ok THEN NullQuarter
    ELSE IF m.year = 0 \/ m.q = 0 \/ m.q < 1 \/ m.q > 4 THEN NullQuarter
    ELSE [year |-> m.year, quarter |-> m.q, key |-> m.year * 4 + m.q]

\* a parse whose pattern lacks the i flag: a lower-case q is no quarter token
parseQuarterCaseSensitive(label) ==
  IF label = <<>> \/ label = UndefinedLabel THEN NullQuarter
  ELSE LET m == RegexExec(Trim(label), 1) IN
    IF ~m.ok \/ (\E i \in 1..Len(label) : label[i] = "q") THEN NullQuarter
    ELSE IF m.year = 0 \/ m.q = 0 \/ m.q < 1 \/ m.q > 4 THEN NullQuarter
    ELSE [year |-> m.year, quarter |-> m.q, key |-> m.year * 4 + (m.q - 1)]

\* parseQuarter(label); null is NullQuarter
parseQuarter(label) ==
  IF label = <<>> \/ label = UndefinedLabel THEN NullQuarter
  ELSE LET m == RegexExec(Trim(label), 1) IN
    IF ~m.ok THEN NullQuarter
    ELSE IF m.year = 0 \/ m.q = 0 \/ m.q < 1 \/ m.q > 4 THEN NullQuarter
    ELSE [year |-> m.year, quarter |-> m.q, key |-> m.year * 4 + (m.q - 1)]

\* a formatter that prints the quarter counted from zero
formatQuarterZeroBased(year, quarter) ==
  <<"Q">> \o IntToStr(quarter - 1) \o <<" ">> \o IntToStr(year)

\* a formatter that prints the year first
formatQuarterYearFirst(year, quarter) ==
  IntToStr(year) \o <<" ", "Q">> \o IntToStr(quarter)

formatQuarter(year, quarter) == <<"Q">> \o IntToStr(quarter) \o <<" ">> \o IntToStr(year)

\* a successor that forgets to roll the year over after quarter 4
nextQuarterNoRoll(input) ==
  LET nextQ == IF input.quarter = 4 THEN 1 ELSE input.quarter + 1
  IN [year |-> input.year, quarter |-> nextQ, key |-> input.year * 4 + (nextQ - 1)]

nextQuarter(input) ==
  LET nextQ == IF input.quarter = 4 THEN 1 ELSE input.quarter + 1
      nextYear == IF input.quarter = 4 THEN input.year + 1 ELSE input.year
  IN [year |-> nextYear, quarter |-> nextQ, key |-> nextYear * 4 + (nextQ - 1)]

----------------------------------------------------------------------------
(* averageRatio and projectNextValue *)

Min2(a, b) == IF a < b THEN a ELSE b

RECURSIVE SumSeq(_)
SumSeq(s) == IF s = <<>> THEN Num(0) ELSE Add(s[1], SumSeq(Tail(s)))

\* the ratios pushed by the loop of averageRatio over positions 1..len
RECURSIVE Ratios(_, _, _)
Ratios(numerators, denominators, len) ==
  IF len = 0 THEN <<>>
  ELSE LET num == numerators[len]
           den == denominators[len]
           rest == Ratios(numerators, denominators, len - 1)
       IN IF ~IsFinite(num) \/ ~IsFinite(den) \/ den.n = 0 THEN rest
          ELSE Append(rest, Div(num, den))

\* a mean that divides by the number of positions instead of the number of ratios
averageRatioOverLength(numerators, denominators) ==
  LET len == Min2(Len(numerators), Len(denominators))
      ratios == Ratios(numerators, denominators, len)
  IN IF Len(ratios) = 0 THEN Undefined
     ELSE Div(SumSeq(ratios), Num(len))

averageRatio(numerators, denominators) ==
  LET ratios == Ratios(numerators, denominators, Min2(Len(numerators), Len(denominators)))
  IN IF Len(ratios) = 0 THEN Undefined
     ELSE Div(SumSeq(ratios), Num(Len(ratios)))

\* series.filter(Number.isFinite)
RECURSIVE FiniteOnly(_)
FiniteOnly(s) ==
  IF s = <<>> THEN <<>>
  ELSE IF IsFinite(s[1]) THEN <<s[1]>> \o FiniteOnly(Tail(s)) ELSE FiniteOnly(Tail(s))

\* values.slice(-4)
LastFour(values) == IF Len(values) <= 4 THEN values ELSE SubSeq(values, Len(values) - 3, Len(values))

\* a projection whose slope runs over every finite value instead of the last four
projectNextValueNoWindow(series) ==
  LET values == FiniteOnly(series) IN
  IF Len(values) = 0 THEN Num(0)
  ELSE IF Len(values) < 2 THEN values[Len(values)]
  ELSE LET diffs == [idx \in 1..(Len(values) - 1) |-> Sub(values[idx + 1], values[idx])]
           slope == Div(SumSeq(diffs), Num(Len(diffs)))
       IN MathMax(Num(0), Add(values[Len(values)], slope))

projectNextValue(series) ==
  LET values == FiniteOnly(series) IN
  IF Len(values) = 0 THEN Num(0)
  ELSE LET tail == LastFour(values) IN
    IF Len(tail) < 2 THEN tail[Len(tail)]
    ELSE LET diffs == [idx \in 1..(Len(tail) - 1) |-> Sub(tail[idx + 1], tail[idx])]
             slope == Div(SumSeq(diffs), Num(Len(diffs)))
         IN MathMax(Num(0), Add(tail[Len(tail)], slope))

----------------------------------------------------------------------------
(* Optional values, property access and the forecast lookup maps *)

\* an array value held by a forecast source, or undefined
Arr(v) == [t |-> "arr", v |-> v]
NoArr == [t |-> "undef", v |-> <<>>]

\* a { lower, upper } object of a forecast source, undefined or null
CiOf(lower, upper) == [t |-> "obj", lower |-> lower, upper |-> upper]
NoCi == [t |-> "undef", lower |-> NoArr, upper |-> NoArr]
NullCi == [t |-> "null", lower |-> NoArr, upper |-> NoArr]

\* a ForecastSource: { labels, values, ci }, undefined or null
Source(labels, values, ci) == [t |-> "obj", labels |-> labels, values |-> values, ci |-> ci]
NoSource == [t |-> "undef", labels |-> NoArr, values |-> NoArr, ci |-> NoCi]
NullSource == [t |-> "null", labels |-> NoArr, values |-> NoArr, ci |-> NoCi]

\* the outcome of evaluating an expression that raised a TypeError
Thrown == [t |-> "throw", v |-> <<>>]
Nullish(o) == o.t \in {"undef", "null"}

\* o.f : a TypeError when o is undefined or null
Member(o, f) == IF o.t = "throw" \/ Nullish(o) THEN Thrown ELSE o[f]

\* o?.f : undefined when o is undefined or null
OptMember(o, f) == IF o.t = "throw" THEN Thrown ELSE IF Nullish(o) THEN NoArr ELSE o[f]

\* a label usable as a map key: `label && ...`
TruthyLabel(label) == label # <<>> /\ label # UndefinedLabel

Min3(a, b, c) == Min2(a, Min2(b, c))

EmptyMap == [k \in {} |-> Undefined]
MapGet(m, k) == IF k \in DOMAIN m THEN m[k] ELSE Undefined

\* the largest element of a non-empty set of integers
MaxOf(S) == CHOOSE x \in S : \A y \in S : y <= x

\* takeForecast(source): label -> value, a later entry replacing an earlier one
takeForecast(source) ==
  LET labels == OptMember(source, "labels")
      values == OptMember(source, "values")
  IN IF labels.t = "throw" \/ values.t = "throw" THEN [thrown |-> TRUE, map |-> EmptyMap]
     ELSE IF ~(labels.t = "arr" /\ Len(labels.v) > 0) \/ ~(values.t = "arr" /\ Len(values.v) > 0)
       THEN [thrown |-> FALSE, map |-> EmptyMap]
     ELSE LET len == Min2(Len(labels.v), Len(values.v))
              set == {i \in 1..len : TruthyLabel(labels.v[i]) /\ IsFinite(values.v[i])}
              keys == {labels.v[i] : i \in set}
          IN [thrown |-> FALSE,
              map |-> [k \in keys |-> values.v[MaxOf({i \in set : labels.v[i] = k})]]]

NoEntry == [has |-> FALSE, lower |-> Undefined, upper |-> Undefined]
EmptyCiMap == [k \in {} |-> NoEntry]
CiGet(m, k) == IF k \in DOMAIN m THEN m[k] ELSE NoEntry

\* ciMap(source): label -> { lower, upper }
ciMap(source) ==
  LET labels == OptMember(source, "labels") IN
  IF labels.t = "throw" THEN [thrown |-> TRUE, map |-> EmptyCiMap]
  ELSE IF labels.t # "arr" THEN [thrown |-> FALSE, map |-> EmptyCiMap]
  ELSE LET ci == Member(source, "ci")
           lower == OptMember(ci, "lower")
           upper == OptMember(ci, "upper")
       IN IF lower.t = "throw" \/ upper.t = "throw" THEN [thrown |-> TRUE, map |-> EmptyCiMap]
          ELSE IF lower.t # "arr" \/ upper.t # "arr" THEN [thrown |-> FALSE, map |-> EmptyCiMap]
          ELSE LET len == Min3(Len(labels.v), Len(lower.v), Len(upper.v))
                   set == {i \in 1..len : TruthyLabel(labels.v[i])
                                          /\ IsFinite(lower.v[i]) /\ IsFinite(upper.v[i])}
                   keys == {labels.v[i] : i \in set}
                   last(k) == MaxOf({i \in set : labels.v[i] = k})
               IN [thrown |-> FALSE,
                   map |-> [k \in keys |-> [has |-> TRUE, lower |-> lower.v[last(k)],
                                            upper |-> upper.v[last(k)]]]]

----------------------------------------------------------------------------
(* The heap of arrays and the arguments of extendSeriesToYear *)

\* the engine stops growing an array at this length and raises a RangeError
\* (ECMAScript: 2^32 - 1 elements; scaled down here)
MaxArrayLength == 64

\* opts.targetYear ?? 2035
DefaultTargetYear == 2035

Fields == {"labels", "estimate", "demand", "supply", "lower", "upper"}
Nil == <<0, "nil">>
\* <<0, f>>: the caller's arrays; <<k, f>>: the arrays allocated by call k
Refs == ((0..2) \X Fields) \cup {Nil}

RefTo(r) == [t |-> "arr", ref |-> r]
NoRef == [t |-> "undef", ref |-> Nil]

\* an assignment without the spread: the local names the caller's array
AliasArray(src, fresh) == src

\* [...src]: the reference of a fresh array holding a copy of src
CopyArray(src, fresh) == fresh

NoLoc == [labels |-> Nil, estimate |-> Nil, demand |-> Nil, supply |-> Nil,
          lower |-> NoRef, upper |-> NoRef]

NoCtx == [targetYear |-> Undefined, maxFuture |-> Undefined,
          forecastMap |-> EmptyMap, mlMap |-> EmptyMap,
          forecastCI |-> EmptyCiMap, mlCI |-> EmptyCiMap,
          ratioEstimate |-> Undefined, ratioSupply |-> Undefined,
          lastSpread |-> Undefined, effectiveTargetYear |-> Undefined]

\* the array behind an optional reference, by value
Deref(h, o) == IF o.t = "arr" THEN Arr(h[o.ref]) ELSE NoArr

\* the contents of the arrays of a base argument
InputOf(h, b, o) ==
  [forecast |-> b.forecast, mlForecast |-> o.mlForecast,
   labels |-> h[b.labels], estimate |-> h[b.estimate], demand |-> h[b.demand],
   supply |-> h[b.supply],
   ci |-> [t |-> b.ci.t, lower |-> Deref(h, b.ci.lower), upper |-> Deref(h, b.ci.upper)]]

\* { labels, estimate, demand, supply, ci: lower && upper ? { lower, upper } : undefined }
ResultOf(h, l) ==
  [labels |-> h[l.labels], estimate |-> h[l.estimate], demand |-> h[l.demand],
   supply |-> h[l.supply],
   ci |-> IF l.lower.t = "arr" /\ l.upper.t = "arr"
          THEN CiOf(Arr(h[l.lower.ref]), Arr(h[l.upper.ref])) ELSE NoCi]

\* a <= b as JavaScript compares numbers: false when either is NaN
LessEq(a, b) == a.t \notin {"nan", "undef"} /\ b.t \notin {"nan", "undef"} /\ ~Less(b, a)

\* const maxFuture = typeof m === 'number' && m > 0 ? Math.max(0, Math.floor(m)) : Infinity
MaxFutureOf(m) ==
  IF m.t # "undef" /\ m.t # "nan" /\ Less(Num(0), m)
  THEN MathMax(Num(0), MathFloor(m)) ELSE PosInf

\* a year ceiling that counts only the full years of the cap
EffectiveTargetYearFloor(targetYear, maxFuture, lastYear) ==
  LET maxFutureYears == IF IsFinite(maxFuture)
                        THEN Add(Num(lastYear), MathFloor(Div(maxFuture, Num(4))))
                        ELSE targetYear
  IN MathMin(targetYear, maxFutureYears)

\* Math.min(targetYear, isFinite(maxFuture) ? lastQuarter.year + ceil(maxFuture / 4) : targetYear)
EffectiveTargetYear(targetYear, maxFuture, lastYear) ==
  LET maxFutureYears == IF IsFinite(maxFuture)
                        THEN Add(Num(lastYear), MathCeil(Div(maxFuture, Num(4))))
                        ELSE targetYear
  IN MathMin(targetYear, maxFutureYears)

\* a spread taken between the last upper and the last lower bound
LastSpreadFromLower(hasBand, lower, upper, demand) ==
  IF hasBand /\ Len(lower) > 0 /\ Len(upper) > 0
  THEN MathMax(Num(0), Sub(Coalesce(At(upper, Len(upper) - 1), Num(0)),
                           Coalesce(At(lower, Len(lower) - 1), Num(0))))
  ELSE Num(0)

\* lower && upper && lower.length && upper.length
\*   ? Math.max(0, (upper[upper.length - 1] ?? 0) - (demand[demand.length - 1] ?? 0)) : 0
LastSpread(hasBand, lower, upper, demand) ==
  IF hasBand /\ Len(lower) > 0 /\ Len(upper) > 0
  THEN MathMax(Num(0), Sub(Coalesce(At(upper, Len(upper) - 1), Num(0)),
                           Coalesce(At(demand, Len(demand) - 1), Num(0))))
  ELSE Num(0)

\* a resolution that lets the secondary model forecast win over base.forecast
ResolveDemandMlFirst(forecastVal, mlVal, projected) ==
  IF IsFinite(mlVal) THEN mlVal
  ELSE IF IsFinite(forecastVal) THEN forecastVal
  ELSE projected

\* a resolution that never consults the secondary model forecast
ResolveDemandNoMl(forecastVal, mlVal, projected) ==
  IF IsFinite(forecastVal) THEN forecastVal ELSE projected

\* nextDemand: forecastVal if finite, else mlVal if finite, else projected
ResolveDemand(forecastVal, mlVal, projected) ==
  IF IsFinite(forecastVal) THEN forecastVal
  ELSE IF IsFinite(mlVal) THEN mlVal
  ELSE projected

\* ratio && isFinite(nextDemand) ? Math.max(0, nextDemand * ratio) : projectNextValue(series)
Derive(ratio, nextDemand, series) ==
  IF Truthy(ratio) /\ IsFinite(nextDemand)
  THEN MathMax(Num(0), Mul(nextDemand, ratio))
  ELSE projectNextValue(series)

\* Number.isFinite(v) ? Number(v) : 0
FiniteOrZero(v) == IF IsFinite(v) THEN v ELSE Num(0)

\* 0.08
SpreadShare == Frac(8, 100)

\* a band that ignores the explicit forecast's CI entry
ResolveBandMlOnly(fEntry, mEntry, nextDemand, lastSpread) ==
  IF mEntry.has THEN [lower |-> mEntry.lower, upper |-> mEntry.upper]
  ELSE IF IsFinite(nextDemand)
    THEN LET spread == IF Truthy(lastSpread) THEN lastSpread
                       ELSE Mul(MathAbs(nextDemand), SpreadShare)
         IN [lower |-> MathMax(Num(0), Sub(nextDemand, spread)),
             upper |-> Add(nextDemand, spread)]
  ELSE [lower |-> Num(0), upper |-> Num(0)]

\* the pair pushed on lower / upper: forecastCI.get(label) || mlCI.get(label), else derived
ResolveBand(fEntry, mEntry, nextDemand, lastSpread) ==
  IF fEntry.has THEN [lower |-> fEntry.lower, upper |-> fEntry.upper]
  ELSE IF mEntry.has THEN [lower |-> mEntry.lower, upper |-> mEntry.upper]
  ELSE IF IsFinite(nextDemand)
    THEN LET spread == IF Truthy(lastSpread) THEN lastSpread
                       ELSE Mul(MathAbs(nextDemand), SpreadShare)
         IN [lower |-> MathMax(Num(0), Sub(nextDemand, spread)),
             upper |-> Add(nextDemand, spread)]
  ELSE [lower |-> Num(0), upper |-> Num(0)]

\* a push that writes over the last element instead of growing the array
PushOverLast(arr, v) == IF arr = <<>> THEN <<v>> ELSE [arr EXCEPT ![Len(arr)] = v]

\* a push that skips a value equal to the last element
PushDistinct(arr, v) == IF arr # <<>> /\ arr[Len(arr)] = v THEN arr ELSE Append(arr, v)

\* arr.push(v): the elements already there keep their places, v becomes the last
Push(arr, v) == Append(arr, v)

----------------------------------------------------------------------------
(* extendSeriesToYear, one action per step *)

\* the part of extendSeriesToYear before its loop: copies, early returns, lookups
Call ==
  /\ pc = "start"
  /\ LET lo == OptMember(base.ci, "lower")
         up == OptMember(base.ci, "upper")
         l1 == [labels |-> CopyArray(base.labels, <<call, "labels">>),
                estimate |-> CopyArray(base.estimate, <<call, "estimate">>),
                demand |-> CopyArray(base.demand, <<call, "demand">>),
                supply |-> CopyArray(base.supply, <<call, "supply">>),
                lower |-> IF lo.t = "arr" THEN RefTo(CopyArray(lo.ref, <<call, "lower">>)) ELSE NoRef,
                upper |-> IF up.t = "arr" THEN RefTo(CopyArray(up.ref, <<call, "upper">>)) ELSE NoRef]
         h1 == [r \in Refs |->
                  IF r = <<call, "labels">> THEN heap[base.labels]
                  ELSE IF r = <<call, "estimate">> THEN heap[base.estimate]
                  ELSE IF r = <<call, "demand">> THEN heap[base.demand]
                  ELSE IF r = <<call, "supply">> THEN heap[base.supply]
                  ELSE IF r = <<call, "lower">> /\ lo.t = "arr" THEN heap[lo.ref]
                  ELSE IF r = <<call, "upper">> /\ up.t = "arr" THEN heap[up.ref]
                  ELSE heap[r]]
         labels == h1[l1.labels]
         lastQuarter == IF Len(labels) = 0 THEN NullQuarter ELSE parseQuarter(labels[Len(labels)])
         targetYear == Coalesce(opts.targetYear, Num(DefaultTargetYear))
         maxFuture == MaxFutureOf(opts.maxFutureQuarters)
         forecastMap == takeForecast(base.forecast)
         mlMap == takeForecast(opts.mlForecast)
         forecastCI == ciMap(base.forecast)
         mlCI == ciMap(opts.mlForecast)
         hasBand == l1.lower.t = "arr" /\ l1.upper.t = "arr"
     IN /\ heap' = h1
        /\ loc' = l1
        /\ IF Len(labels) = 0
             THEN pc' = "done" /\ exit' = "empty" /\ UNCHANGED <<ctx, pointer, added>>
           ELSE IF lastQuarter = NullQuarter
             THEN pc' = "done" /\ exit' = "noanchor" /\ UNCHANGED <<ctx, pointer, added>>
           ELSE IF forecastMap.thrown \/ mlMap.thrown \/ forecastCI.thrown \/ mlCI.thrown
             THEN pc' = "error" /\ exit' = "throw" /\ UNCHANGED <<ctx, pointer, added>>
           ELSE /\ pc' = "loop"
                /\ exit' = "none"
                /\ pointer' = lastQuarter
                /\ added' = 0
                /\ ctx' = [targetYear |-> targetYear, maxFuture |-> maxFuture,
                           forecastMap |-> forecastMap.map, mlMap |-> mlMap.map,
                           forecastCI |-> forecastCI.map, mlCI |-> mlCI.map,
                           ratioEstimate |-> averageRatio(h1[l1.estimate], h1[l1.demand]),
                           ratioSupply |-> averageRatio(h1[l1.supply], h1[l1.demand]),
                           lastSpread |-> LastSpread(hasBand,
                                                     IF hasBand THEN h1[l1.lower.ref] ELSE <<>>,
                                                     IF hasBand THEN h1[l1.upper.ref] ELSE <<>>,
                                                     h1[l1.demand]),
                           effectiveTargetYear |->
                             EffectiveTargetYear(targetYear, maxFuture, lastQuarter.year)]
  /\ UNCHANGED <<base, opts, call, input0, first, fn, arg, res, appVars>>

\* while (pointer.year <= effectiveTargetYear) is false: the loop ends
LoopWhileExit ==
  /\ pc = "loop"
  /\ ~LessEq(Num(pointer.year), ctx.effectiveTargetYear)
  /\ pc' = "done"
  /\ exit' = "while"
  /\ UNCHANGED <<heap, base, opts, loc, ctx, pointer, added, call, input0, first, fn, arg, res, appVars>>

\* if (added >= maxFuture) break
LoopCapBreak ==
  /\ pc = "loop"
  /\ LessEq(Num(pointer.year), ctx.effectiveTargetYear)
  /\ LessEq(ctx.maxFuture, Num(added))
  /\ pc' = "done"
  /\ exit' = "cap"
  /\ UNCHANGED <<heap, base, opts, loc, ctx, pointer, added, call, input0, first, fn, arg, res, appVars>>

\* pointer = nextQuarter(pointer); if (pointer.year > effectiveTargetYear) break
LoopYearBreak ==
  /\ pc = "loop"
  /\ LessEq(Num(pointer.year), ctx.effectiveTargetYear)
  /\ ~LessEq(ctx.maxFuture, Num(added))
  /\ Less(ctx.effectiveTargetYear, Num(nextQuarter(pointer).year))
  /\ pointer' = nextQuarter(pointer)
  /\ pc' = "done"
  /\ exit' = "year"
  /\ UNCHANGED <<heap, base, opts, loc, ctx, added, call, input0, first, fn, arg, res, appVars>>

\* the loop body is entered: the guards of one more appended quarter
CanAppend ==
  /\ pc = "loop"
  /\ LessEq(Num(pointer.year), ctx.effectiveTargetYear)
  /\ ~LessEq(ctx.maxFuture, Num(added))
  /\ ~Less(ctx.effectiveTargetYear, Num(nextQuarter(pointer).year))

\* one iteration of the loop body: a quarter is appended to every array
LoopAppend ==
  /\ CanAppend
  /\ Len(heap[loc.labels]) < MaxArrayLength
  /\ LET next == nextQuarter(pointer)
         label == formatQuarter(next.year, next.quarter)
         demand == heap[loc.demand]
         forecastVal == MapGet(ctx.forecastMap, label)
         mlVal == MapGet(ctx.mlMap, label)
         projected == projectNextValue(demand)
         nextDemand == ResolveDemand(forecastVal, mlVal, projected)
         derivedEstimate == Derive(ctx.ratioEstimate, nextDemand, heap[loc.estimate])
         derivedSupply == Derive(ctx.ratioSupply, nextDemand, heap[loc.supply])
         hasBand == loc.lower.t = "arr" /\ loc.upper.t = "arr"
         band == ResolveBand(CiGet(ctx.forecastCI, label), CiGet(ctx.mlCI, label),
                             nextDemand, ctx.lastSpread)
         h1 == [heap EXCEPT ![loc.labels] = Push(@, label)]
         h2 == [h1 EXCEPT ![loc.demand] = Push(@, FiniteOrZero(nextDemand))]
         h3 == [h2 EXCEPT ![loc.estimate] = Push(@, FiniteOrZero(derivedEstimate))]
         h4 == [h3 EXCEPT ![loc.supply] = Push(@, FiniteOrZero(derivedSupply))]
         h5 == IF hasBand THEN [h4 EXCEPT ![loc.lower.ref] = Push(@, band.lower)] ELSE h4
         h6 == IF hasBand THEN [h5 EXCEPT ![loc.upper.ref] = Push(@, band.upper)] ELSE h5
     IN /\ heap' = h6
        /\ pointer' = next
        /\ added' = added + 1
  /\ UNCHANGED <<base, opts, loc, ctx, pc, exit, call, input0, first, fn, arg, res, appVars>>

\* labels.push on an array that cannot grow: the engine raises and the call ends in an error
LoopPushFails ==
  /\ CanAppend
  /\ Len(heap[loc.labels]) >= MaxArrayLength
  /\ pointer' = nextQuarter(pointer)
  /\ pc' = "error"
  /\ exit' = "throw"
  /\ UNCHANGED <<heap, base, opts, loc, ctx, added, call, input0, first, fn, arg, res, appVars>>

\* the caller passes the returned series E back in, with the same options
Reextend ==
  /\ pc = "done"
  /\ call = 1
  /\ LET hasBand == loc.lower.t = "arr" /\ loc.upper.t = "arr"
         b2 == [labels |-> loc.labels, estimate |-> loc.estimate,
                demand |-> loc.demand, supply |-> loc.supply,
                ci |-> IF hasBand THEN [t |-> "obj", lower |-> loc.lower, upper |-> loc.upper]
                       ELSE [t |-> "undef", lower |-> NoRef, upper |-> NoRef],
                forecast |-> NoSource]
     IN /\ base' = b2
        /\ input0' = InputOf(heap, b2, opts)
        /\ first' = [series |-> ResultOf(heap, loc), exit |-> exit, added |-> added,
                     returned |-> TRUE]
  /\ call' = 2
  /\ pc' = "start"
  /\ exit' = "none"
  /\ loc' = NoLoc
  /\ ctx' = NoCtx
  /\ pointer' = NullQuarter
  /\ added' = 0
  /\ UNCHANGED <<heap, opts, fn, arg, res, appVars>>

Next ==
  \/ Call
  \/ LoopWhileExit
  \/ LoopCapBreak
  \/ LoopYearBreak
  \/ LoopAppend
  \/ LoopPushFails
  \/ Reextend

----------------------------------------------------------------------------
(* Inputs *)

Q(q, y) == formatQuarter(y, q)
LabelYearFirst == <<"2", "0", "2", "4", "-", "Q", "4">>
LabelLowerCase == <<" ", "q", "2", " ", "2", "0", "2", "5">>
LabelGarbage == <<"g", "a", "r", "b", "a", "g", "e">>
LabelQuarterFive == <<"Q", "5", " ", "2", "0", "2", "4">>
LabelShortYear == <<"Q", "1", " ", "2", "0", "2">>

Nums(s) == [i \in 1..Len(s) |-> Num(s[i])]

\* labels of the base whose last element decides whether and where extension starts
AnchorLabelSeqs ==
  { <<>>,
    <<Q(3, 2024), Q(4, 2024)>>,
    <<Q(1, 2025)>>,
    <<LabelYearFirst>>,
    <<LabelLowerCase>>,
    <<LabelGarbage>>,
    <<Q(4, 2024), <<>> >>,
    <<Q(4, 2024), UndefinedLabel>>,
    <<LabelQuarterFive>>,
    <<Q(2, 2024), LabelShortYear>> }

\* estimate, demand, supply and ci of the base, by value
Series(estimate, demand, supply, ci) ==
  [estimate |-> estimate, demand |-> demand, supply |-> supply, ci |-> ci]

SeriesAligned ==
  Series(Nums(<<8, 9>>), Nums(<<10, 12>>), Nums(<<9, 12>>),
         CiOf(Arr(Nums(<<9, 11>>)), Arr(Nums(<<11, 13>>))))
SeriesRagged ==
  Series(<<>>, <<NaN>>, Nums(<<5, 5, 5>>), NoCi)
SeriesHistory ==
  Series(Nums(<<5, 6, 5, 6>>), Nums(<<10, 12, 11, 13>>), <<Num(0), PosInf>>,
         CiOf(Arr(Nums(<<9>>)), Arr(Nums(<<13>>))))
SeriesFalling ==
  Series(Nums(<<4, 2>>), Nums(<<-3, -6>>), <<NaN, Num(7)>>, NullCi)
SeriesHalfBand ==
  Series(Nums(<<3, 3>>), Nums(<<0, 0>>), Nums(<<1, 2>>), CiOf(Arr(Nums(<<1, 1>>)), NoArr))
SeriesWideBand ==
  Series(Nums(<<8, 9>>), Nums(<<10, 12>>), Nums(<<9, 12>>),
         CiOf(Arr(<<Num(1), NaN>>), Arr(<<Num(2), PosInf>>)))

\* estimate and supply are 0 wherever demand is a valid denominator: both ratios are 0
SeriesZeroRatio ==
  Series(Nums(<<0, 5>>), Nums(<<10, 0>>), Nums(<<0, 3>>), NoCi)

ControlSeries == {SeriesAligned, SeriesRagged}
ValueSeries == {SeriesAligned, SeriesRagged, SeriesHistory, SeriesFalling,
                SeriesHalfBand, SeriesWideBand, SeriesZeroRatio}

TargetYears == {Undefined, Num(2024), Num(2025), Num(2026), NaN, PosInf}
MaxFutures == {Undefined, Num(0), Num(1), Num(2), Num(4), Num(5), Frac(5, 2), Num(-1), NaN, PosInf}

\* every quarter of 2025, each with a value and a band
ForecastFull ==
  Source(Arr(<<Q(1, 2025), Q(2, 2025), Q(3, 2025), Q(4, 2025)>>),
         Arr(Nums(<<20, 21, 22, 23>>)),
         CiOf(Arr(Nums(<<18, 19, 20, 21>>)), Arr(Nums(<<22, 23, 24, 25>>))))
\* a repeated label, a label in another format, a non-finite band entry
ForecastMixed ==
  Source(Arr(<<Q(1, 2025), <<"2", "0", "2", "5", " ", "Q", "2">>, Q(1, 2025), <<>> >>),
         Arr(Nums(<<20, 30, 25, 7>>)),
         CiOf(Arr(<<Num(18), NaN, Num(24)>>), Arr(Nums(<<22, 33, 26>>))))
\* a non-finite value, a negative value, no band
ForecastSparse ==
  Source(Arr(<<Q(2, 2025), Q(3, 2025), UndefinedLabel>>), Arr(<<NaN, Num(-4), Num(1)>>), NoCi)
\* bands without values
ForecastBandOnly ==
  Source(Arr(<<Q(1, 2025), Q(2, 2025)>>), NoArr,
         CiOf(Arr(Nums(<<1, 2>>)), Arr(Nums(<<3, 4>>))))
ForecastNullBand ==
  Source(Arr(<<Q(1, 2025)>>), Arr(<<PosInf, Num(3)>>), NullCi)

Forecasts == {NoSource, NullSource, ForecastFull, ForecastMixed, ForecastSparse,
              ForecastBandOnly, ForecastNullBand}

MlFull ==
  Source(Arr(<<Q(1, 2025), Q(2, 2025), Q(3, 2025), Q(4, 2024)>>),
         Arr(Nums(<<40, 41, 42, 99>>)),
         CiOf(Arr(Nums(<<38, 39, 40, 90>>)), Arr(Nums(<<44, 45, 46, 100>>))))
MlSparse ==
  Source(Arr(<<Q(2, 2025), Q(4, 2025)>>), Arr(<<Num(50), NegInf>>), NoCi)
MlBandOnly ==
  Source(Arr(<<Q(3, 2025), Q(4, 2025)>>), Arr(<<>>),
         CiOf(Arr(Nums(<<5, 6>>)), Arr(Nums(<<7, 8>>))))

MlForecasts == {NoSource, NullSource, MlFull, MlSparse, MlBandOnly}

NoFirst == [series |-> [labels |-> <<>>, estimate |-> <<>>, demand |-> <<>>,
                        supply |-> <<>>, ci |-> NoCi],
            exit |-> "none", added |-> 0, returned |-> FALSE]

\* a call that has not returned, and one that returned v
NotReturned == [t |-> "pending"]
Returned(v) == [t |-> "returned", v |-> v]

\* extendSeriesToYear takes its arguments in base and opts
NoArg == <<>>

\* the App after its first render: the useState initial values, and both effects
\* have run once with data null
AppMounted ==
  /\ file = FALSE
  /\ data = 0
  /\ loading = FALSE
  /\ derived = "null"
  /\ filters = "{}"
  /\ training = "null"
  /\ trainingSets = 0
  /\ uploading = 0
  /\ sampling = 0
  /\ metricsDeps = <<"{}", FALSE>>
  /\ requests = <<>>
  /\ pollDeps = <<0, "undefined">>
  /\ instances = <<>>

\* the state when extendSeriesToYear(base, opts) is called
InitWith(labels, series, forecast, ml, targetYear, maxFutureQuarters) ==
  LET ci == series.ci
      b == [labels |-> <<0, "labels">>, estimate |-> <<0, "estimate">>,
            demand |-> <<0, "demand">>, supply |-> <<0, "supply">>,
            ci |-> [t |-> ci.t,
                    lower |-> IF ci.lower.t = "arr" THEN RefTo(<<0, "lower">>) ELSE NoRef,
                    upper |-> IF ci.upper.t = "arr" THEN RefTo(<<0, "upper">>) ELSE NoRef],
            forecast |-> forecast]
      h == [r \in Refs |->
              IF r = <<0, "labels">> THEN labels
              ELSE IF r = <<0, "estimate">> THEN series.estimate
              ELSE IF r = <<0, "demand">> THEN series.demand
              ELSE IF r = <<0, "supply">> THEN series.supply
              ELSE IF r = <<0, "lower">> THEN ci.lower.v
              ELSE IF r = <<0, "upper">> THEN ci.upper.v
              ELSE <<>>]
  IN /\ heap = h
     /\ base = b
     /\ opts = [mlForecast |-> ml, targetYear |-> targetYear,
                maxFutureQuarters |-> maxFutureQuarters]
     /\ loc = NoLoc
     /\ ctx = NoCtx
     /\ pointer = NullQuarter
     /\ added = 0
     /\ pc = "start"
     /\ exit = "none"
     /\ call = 1
     /\ input0 = InputOf(h, b, [mlForecast |-> ml])
     /\ first = NoFirst
     /\ fn = "extendSeriesToYear"
     /\ arg = NoArg
     /\ res = NotReturned
     /\ AppMounted

\* calls that vary the anchor and the two limits of the loop
InitControl ==
  \E labels \in AnchorLabelSeqs, series \in ControlSeries,
     targetYear \in TargetYears, maxFutureQuarters \in MaxFutures :
       InitWith(labels, series, NoSource, NoSource, targetYear, maxFutureQuarters)

\* calls that vary the history and the two forecast sources
InitValues ==
  \E series \in ValueSeries, forecast \in Forecasts, ml \in MlForecasts,
     maxFutureQuarters \in {Undefined, Num(2)} :
       InitWith(<<Q(3, 2024), Q(4, 2024)>>, series, forecast, ml, Num(2025), maxFutureQuarters)

\* calls on a base without a parseable last label
InitNoAnchor ==
  \E labels \in {<<>>, <<LabelGarbage>>, <<Q(4, 2024), <<>> >>, <<LabelQuarterFive>>},
     series \in ValueSeries, forecast \in Forecasts, ml \in {NullSource, MlFull} :
       InitWith(labels, series, forecast, ml, Num(2025), Undefined)

Init == InitControl \/ InitValues \/ InitNoAnchor

Spec == Init /\ [][Next]_vars

----------------------------------------------------------------------------
(* The year aggregation of the Forecasting component *)

\* first position >= i of s that holds no digit (\d+)
RECURSIVE SkipDigits(_, _)
SkipDigits(s, i) == IF i <= Len(s) /\ IsDigit(s[i]) THEN SkipDigits(s, i + 1) ELSE i

\* a bucket key that is the whole label: no year is taken out of it
yearOfWholeLabel(label) == label

\* /(?:Q\d+\s+)?(\d{4})/.exec(label): m ? m[1] : label, the leftmost match
yearOf(label) ==
  LET WithQ(i) ==
        IF i <= Len(label) /\ label[i] = "Q"
        THEN LET j == SkipDigits(label, i + 1)
                 k == SkipSpace(label, j)
             IN IF j > i + 1 /\ k > j /\ FourDigits(label, k) THEN k ELSE 0
        ELSE 0
      At4(i) == IF WithQ(i) > 0 THEN WithQ(i) ELSE IF FourDigits(label, i) THEN i ELSE 0
      hits == { i \in 1..Len(label) : At4(i) > 0 }
  IN IF hits = {} THEN label
     ELSE LET i == CHOOSE h \in hits : \A g \in hits : h <= g
          IN SubSeq(label, At4(i), At4(i) + 3)

\* the characters of labels in the order of their UTF-16 code units
CharOrder ==
  <<" ", "-", "/", "0", "1", "2", "3", "4", "5", "6", "7", "8", "9",
    "A", "B", "C", "D", "E", "F", "G", "H", "I", "J", "K", "L", "M",
    "N", "O", "P", "Q", "R", "S", "T", "U", "V", "W", "X", "Y", "Z", "_",
    "a", "b", "c", "d", "e", "f", "g", "h", "i", "j", "k", "l", "m",
    "n", "o", "p", "q", "r", "s", "t", "u", "v", "w", "x", "y", "z">>

\* a < b as Array.prototype.sort() orders strings
RECURSIVE StringLess(_, _)
StringLess(a, b) ==
  IF b = <<>> THEN FALSE
  ELSE IF a = <<>> THEN TRUE
  ELSE IF a[1] = b[1] THEN StringLess(Tail(a), Tail(b))
  ELSE (CHOOSE i \in 1..Len(CharOrder) : CharOrder[i] = a[1])
       < (CHOOSE i \in 1..Len(CharOrder) : CharOrder[i] = b[1])

\* Array.from(keys).sort()
RECURSIVE SortStrings(_)
SortStrings(keys) ==
  IF keys = {} THEN <<>>
  ELSE LET least == CHOOSE k \in keys : \A o \in keys \ {k} : StringLess(k, o)
       IN <<least>> \o SortStrings(keys \ {least})

\* Math.round(x): the integer nearest to x, a half rounded up
MathRound(x) == IF x.t = "num" THEN MathFloor(Add(x, Frac(1, 2))) ELSE x

\* Math.round(x * 1000) / 1000
RoundThousandths(x) ==
  IF IsFinite(x) THEN Div(MathRound(Mul(x, Num(1000))), Num(1000)) ELSE x

\* the Map after extended.labels.forEach has visited the first n labels
RECURSIVE YearMap(_, _)
YearMap(extended, n) ==
  IF n = 0 THEN <<>>
  ELSE LET map == YearMap(extended, n - 1)
           y == yearOf(extended.labels[n])
           obj == IF y \in DOMAIN map THEN map[y]
                  ELSE [e |-> Num(0), d |-> Num(0), s |-> Num(0), l |-> Num(0), u |-> Num(0)]
           OrZero(x) == IF Truthy(x) THEN x ELSE Num(0)
           Elem(arr) == Coalesce(At(arr, n - 1), Num(0))
           new == [e |-> Add(obj.e, Elem(extended.estimate)),
                   d |-> Add(obj.d, Elem(extended.demand)),
                   s |-> Add(obj.s, Elem(extended.supply)),
                   l |-> IF extended.ci.t = "obj"
                         THEN Add(OrZero(obj.l), Elem(extended.ci.lower.v)) ELSE obj.l,
                   u |-> IF extended.ci.t = "obj"
                         THEN Add(OrZero(obj.u), Elem(extended.ci.upper.v)) ELSE obj.u]
       IN [k \in DOMAIN map \cup {y} |-> IF k = y THEN new ELSE map[k]]

\* the object the memo returns in year mode: labels, estimate, demand, supply, band
AggregateToYear(extended) ==
  LET map == YearMap(extended, Len(extended.labels))
      ys == SortStrings(DOMAIN map)
  IN [labels |-> ys,
      estimate |-> [k \in 1..Len(ys) |-> RoundThousandths(map[ys[k]].e)],
      demand |-> [k \in 1..Len(ys) |-> RoundThousandths(map[ys[k]].d)],
      supply |-> [k \in 1..Len(ys) |-> RoundThousandths(map[ys[k]].s)],
      band |-> IF extended.ci.t = "obj"
               THEN CiOf(Arr([k \in 1..Len(ys) |-> map[ys[k]].l]),
                         Arr([k \in 1..Len(ys) |-> map[ys[k]].u]))
               ELSE NoCi]

MaxQuarters == 3

\* labels and values of the extended series that are aggregated
YearLabels == { Q(4, 2024), Q(1, 2025), LabelYearFirst, LabelGarbage }
YearValues == { Num(2), Frac(1, 3), Frac(-1, 2000) }

\* extended series of n quarters: demand a multiple of estimate; supply either a
\* quarter short and no band, or full with a band
ExtendedSeriesOf(n) ==
  { [labels |-> labels, estimate |-> estimate,
     demand |-> [i \in 1..n |-> Mul(estimate[i], Num(3))],
     supply |-> IF banded THEN [i \in 1..n |-> Add(estimate[i], Num(1))]
                ELSE [i \in 1..(n - 1) |-> Num(7)],
     ci |-> IF banded THEN CiOf(Arr([i \in 1..n |-> Sub(estimate[i], Frac(1, 4))]),
                                Arr([i \in 1..n |-> Add(estimate[i], Frac(1, 4))]))
            ELSE NoCi] :
      labels \in [1..n -> YearLabels], estimate \in [1..n -> YearValues],
      banded \in BOOLEAN }

----------------------------------------------------------------------------
(* The functions of lib/time.ts, each called once on a drawn argument *)

\* the variables of extendSeriesToYear when that function is not the one called
NotCalled ==
  /\ heap = [r \in Refs |-> <<>>]
  /\ base = [labels |-> <<0, "labels">>, estimate |-> <<0, "estimate">>,
             demand |-> <<0, "demand">>, supply |-> <<0, "supply">>,
             ci |-> [t |-> "undef", lower |-> NoRef, upper |-> NoRef],
             forecast |-> NoSource]
  /\ opts = [mlForecast |-> NoSource, targetYear |-> Undefined,
             maxFutureQuarters |-> Undefined]
  /\ loc = NoLoc
  /\ ctx = NoCtx
  /\ pointer = NullQuarter
  /\ added = 0
  /\ pc = "idle"
  /\ exit = "none"
  /\ call = 0
  /\ input0 = InputOf(heap, base, opts)
  /\ first = NoFirst

\* four characters that \d{4} matches
YearTexts ==
  { <<"0", "0", "0", "0">>, <<"0", "9", "9", "9">>, <<"1", "0", "0", "0">>,
    <<"2", "0", "2", "4">>, <<"2", "0", "2", "5">>, <<"9", "9", "9", "9">> }

\* what stands between the year and the Q token
Separators == { <<" ">>, <<"-">>, <<"/">>, <<" ", " ">>, <<" ", "-", " ">>, <<"/", " ">> }

\* labels 'Q<d><sep><yyyy>' and '<yyyy><sep>Q<d>' with the quarter token t, 'Q' or 'q'
QuarterFirst(t, d, sep, yyyy) == <<t, d>> \o sep \o yyyy
YearFirst(t, d, sep, yyyy) == yyyy \o sep \o <<t, d>>

\* labels in no such format
OtherLabels ==
  { <<>>, LabelGarbage, LabelShortYear, LabelLowerCase, LabelYearFirst,
    <<"2", "0", "2", " ", "Q", "1">>, <<"Q", "1", " ", "2", "4">>, <<"Q", "3">>,
    <<"2", "0", "2", "4">>, <<"Q", " ", "2", "0", "2", "4">>,
    <<"F", "Y", "2", "0", "2", "4", " ", "Q", "2">>,
    <<"Q", "1", " ", "1", "0", "0", "0", "0">> }

\* Quarter values as parseQuarter and nextQuarter build them
Quarters ==
  { [year |-> y, quarter |-> q, key |-> y * 4 + (q - 1)] :
      y \in {1, 999, 2023, 2024, 2025, 9999}, q \in 1..4 }

MaxPairLen == 2
MaxSeriesLen == 5

\* the arrays of at most n elements of S
SeqsUpTo(S, n) == UNION { [1..k -> S] : k \in 0..n }

\* elements of the arrays given to averageRatio and to projectNextValue
RatioValues == { NaN, PosInf, Num(0), Num(5), Num(10), Num(20) }
TrendValues == { NaN, Num(5), Num(12), Num(13) }

InitFunctions ==
  /\ NotCalled
  /\ res = NotReturned
  /\ AppMounted
  /\ \/ /\ fn = "parseQuarter"
        /\ arg \in OtherLabels \cup
                   { QuarterFirst(t, d, sep, yyyy) :
                       t \in {"Q", "q"}, d \in Digits, sep \in Separators, yyyy \in YearTexts }
                   \cup
                   { YearFirst(t, d, sep, yyyy) :
                       t \in {"Q", "q"}, d \in Digits, sep \in Separators, yyyy \in YearTexts }
     \/ /\ fn = "nextQuarter"
        /\ arg \in Quarters
     \/ /\ fn = "averageRatio"
        /\ arg \in { [numerators |-> n, denominators |-> d] :
                       n \in SeqsUpTo(RatioValues, MaxPairLen),
                       d \in SeqsUpTo(RatioValues, MaxPairLen) }
     \/ /\ fn = "projectNextValue"
        /\ arg \in SeqsUpTo(TrendValues, MaxSeriesLen)
                   \cup { Nums(<<10, 12, 11, 13>>), Nums(<<13, 5>>), Nums(<<-3, -6>>),
                          <<Num(10), NaN, Num(12), Num(11), PosInf, Num(13)>>,
                          <<NaN, Num(-3)>> }
     \/ /\ fn = "aggregateToYear"
        /\ arg \in UNION { ExtendedSeriesOf(n) : n \in 1..MaxQuarters } \cup
                   { [labels |-> <<Q(4, 2024), LabelYearFirst>>, estimate |-> Nums(<<2, 3>>),
                      demand |-> Nums(<<4, 5>>), supply |-> Nums(<<1, 1>>),
                      ci |-> CiOf(Arr(<<NaN, Num(5)>>), Arr(Nums(<<6, 7>>)))] }

\* const r = parseQuarter(label)
ParseQuarterCall ==
  /\ fn = "parseQuarter"
  /\ res = NotReturned
  /\ res' = Returned(parseQuarter(arg))
  /\ UNCHANGED <<heap, base, opts, loc, ctx, pointer, added, pc, exit, call, input0, first,
                 fn, arg, appVars>>

\* const r = nextQuarter(q)
NextQuarterCall ==
  /\ fn = "nextQuarter"
  /\ res = NotReturned
  /\ res' = Returned(nextQuarter(arg))
  /\ UNCHANGED <<heap, base, opts, loc, ctx, pointer, added, pc, exit, call, input0, first,
                 fn, arg, appVars>>

\* const r = averageRatio(numerators, denominators)
AverageRatioCall ==
  /\ fn = "averageRatio"
  /\ res = NotReturned
  /\ res' = Returned(averageRatio(arg.numerators, arg.denominators))
  /\ UNCHANGED <<heap, base, opts, loc, ctx, pointer, added, pc, exit, call, input0, first,
                 fn, arg, appVars>>

\* const r = projectNextValue(series)
ProjectNextValueCall ==
  /\ fn = "projectNextValue"
  /\ res = NotReturned
  /\ res' = Returned(projectNextValue(arg))
  /\ UNCHANGED <<heap, base, opts, loc, ctx, pointer, added, pc, exit, call, input0, first,
                 fn, arg, appVars>>

\* the year-mode branch of the memo, on the extended series
AggregateCall ==
  /\ fn = "aggregateToYear"
  /\ res = NotReturned
  /\ res' = Returned(AggregateToYear(arg))
  /\ UNCHANGED <<heap, base, opts, loc, ctx, pointer, added, pc, exit, call, input0, first,
                 fn, arg, appVars>>

NextFunctions ==
  \/ ParseQuarterCall
  \/ NextQuarterCall
  \/ AverageRatioCall
  \/ ProjectNextValueCall
  \/ AggregateCall

SpecFunctions == InitFunctions /\ [][NextFunctions]_vars

----------------------------------------------------------------------------
(* Vocabulary of the properties *)

\* the call has copied its arrays: loc names them
InCall == pc \in {"loop", "done", "error"}

\* the labels of the call and the number of labels the base came with
LabelsNow == heap[loc.labels]
BaseCount == Len(input0.labels)
AppendedCount == Len(LabelsNow) - BaseCount

\* the j-th label appended by the call
AppendedLabel(j) == LabelsNow[BaseCount + j]

\* the j-th value appended to an array that held n elements when the call began
AppendedTo(arr, n, j) == arr[n + j]

RECURSIVE StrToInt(_)
StrToInt(s) == IF s = <<>> THEN 0 ELSE 10 * StrToInt(SubSeq(s, 1, Len(s) - 1)) + DigitVal(s[Len(s)])

\* the year and quarter written in a label of the form 'Q<q> <year>'; key -1 for any other label
ReadCanonical(label) ==
  IF /\ Len(label) >= 4
     /\ label[1] = "Q"
     /\ IsDigit(label[2])
     /\ label[3] = " "
     /\ \A k \in 4..Len(label) : IsDigit(label[k])
  THEN LET y == StrToInt(SubSeq(label, 4, Len(label)))
           q == DigitVal(label[2])
       IN [year |-> y, quarter |-> q, key |-> y * 4 + (q - 1)]
  ELSE [year |-> -1, quarter |-> -1, key |-> -1]

\* the quarter whose key is k
QuarterOfKey(k) == [year |-> k \div 4, quarter |-> (k % 4) + 1, key |-> k]

\* the anchor: the parsed last label of the base
AnchorQuarter == parseQuarter(input0.labels[BaseCount])

\* the positions of a source that give a finite value for a label
ValueIndexes(source, label) ==
  IF source.t = "obj" /\ source.labels.t = "arr" /\ source.values.t = "arr"
  THEN {i \in 1..Min2(Len(source.labels.v), Len(source.values.v)) :
          source.labels.v[i] = label /\ IsFinite(source.values.v[i])}
  ELSE {}
Supplies(source, label) == ValueIndexes(source, label) # {}
SuppliedValue(source, label) == source.values.v[MaxOf(ValueIndexes(source, label))]

\* the positions of a source that give a finite lower and upper bound for a label
BandIndexes(source, label) ==
  IF /\ source.t = "obj" /\ source.labels.t = "arr" /\ source.ci.t = "obj"
     /\ source.ci.lower.t = "arr" /\ source.ci.upper.t = "arr"
  THEN {i \in 1..Min3(Len(source.labels.v), Len(source.ci.lower.v), Len(source.ci.upper.v)) :
          /\ source.labels.v[i] = label
          /\ IsFinite(source.ci.lower.v[i])
          /\ IsFinite(source.ci.upper.v[i])}
  ELSE {}
SuppliesBand(source, label) == BandIndexes(source, label) # {}
SuppliedBand(source, label) ==
  LET i == MaxOf(BandIndexes(source, label))
  IN [lower |-> source.ci.lower.v[i], upper |-> source.ci.upper.v[i]]

\* the base carries a CI band: both ci.lower and ci.upper are arrays
BaseHasBand == input0.ci.lower.t = "arr" /\ input0.ci.upper.t = "arr"

\* labels of the input sets that hold no quarter 1..4 with a 4-digit year
UnparsableLabels == {<<>>, UndefinedLabel, LabelGarbage, LabelQuarterFive, LabelShortYear}

----------------------------------------------------------------------------
(* C1: idempotence of extension *)

\* C1 as stated: extending the returned series E again with the same targetYear
\* and maxFutureQuarters appends nothing: the labels of the second call are E's.
C1_Idempotent ==
  (call = 2 /\ InCall) => LabelsNow = first.series.labels

\* C1 amended: the second call appends nothing whenever the first call did not
\* leave its loop on the maxFutureQuarters cap.
C1_IdempotentUnlessCapped ==
  (call = 2 /\ InCall /\ first.exit # "cap") => LabelsNow = first.series.labels

\* the first call appended quarters up to the target year and the second returned
C1_Witness ==
  call = 2 /\ pc = "done" /\ first.exit = "year" /\ first.added >= 2

(* C2: the labels only grow, and appended quarter keys strictly increase *)

\* C2: the call's labels are never fewer than the base's, and the key written in
\* every appended label exceeds the key of the label before it (the anchor's
\* parsed key for the first appended label).
C2_Monotone ==
  InCall =>
    /\ Len(LabelsNow) >= BaseCount
    /\ \A j \in 1..AppendedCount :
         ReadCanonical(AppendedLabel(j)).key >
           (IF j = 1 THEN AnchorQuarter.key ELSE ReadCanonical(AppendedLabel(j - 1)).key)

\* a call that appended across a year boundary and returned
C2_Witness ==
  /\ pc = "done" /\ call = 1 /\ AppendedCount >= 3
  /\ ReadCanonical(AppendedLabel(1)).year < ReadCanonical(AppendedLabel(AppendedCount)).year

(* C3: override precedence of base.forecast *)

\* C3: when base.forecast gives a value for every appended quarter, each appended
\* demand value is that forecast value.
C3_OverridePrecedence ==
  (pc = "done" /\ \A j \in 1..AppendedCount : Supplies(base.forecast, AppendedLabel(j))) =>
    \A j \in 1..AppendedCount :
      AppendedTo(heap[loc.demand], Len(input0.demand), j)
        = SuppliedValue(base.forecast, AppendedLabel(j))

\* a returned call whose appended quarters all have a forecast value, while the
\* secondary model offers another value for one of them
C3_Witness ==
  /\ pc = "done" /\ AppendedCount >= 2
  /\ \A j \in 1..AppendedCount : Supplies(base.forecast, AppendedLabel(j))
  /\ \E j \in 1..AppendedCount :
       /\ Supplies(opts.mlForecast, AppendedLabel(j))
       /\ SuppliedValue(opts.mlForecast, AppendedLabel(j))
            # SuppliedValue(base.forecast, AppendedLabel(j))

(* C4: point-value tie-break, per quarter *)

\* the value C4 prescribes for the j-th appended quarter
C4Expected(j) ==
  LET label == AppendedLabel(j)
      before == SubSeq(heap[loc.demand], 1, Len(input0.demand) + j - 1)
  IN IF Supplies(base.forecast, label) THEN SuppliedValue(base.forecast, label)
     ELSE IF Supplies(opts.mlForecast, label) THEN SuppliedValue(opts.mlForecast, label)
     ELSE projectNextValue(before)

\* C4: every appended demand value is the base.forecast value for its label, else
\* the mlForecast value, else the trend projection of the demand built so far.
C4_PointTieBreak ==
  InCall => \A j \in 1..AppendedCount :
    AppendedTo(heap[loc.demand], Len(input0.demand), j) = C4Expected(j)

\* one returned call used all three sources: a forecast value where the model also
\* had one, a model value, and a projection
C4_Witness ==
  /\ pc = "done"
  /\ \E j \in 1..AppendedCount :
       Supplies(base.forecast, AppendedLabel(j)) /\ Supplies(opts.mlForecast, AppendedLabel(j))
  /\ \E j \in 1..AppendedCount :
       ~Supplies(base.forecast, AppendedLabel(j)) /\ Supplies(opts.mlForecast, AppendedLabel(j))
  /\ \E j \in 1..AppendedCount :
       /\ ~Supplies(base.forecast, AppendedLabel(j))
       /\ ~Supplies(opts.mlForecast, AppendedLabel(j))
       /\ AppendedTo(heap[loc.demand], Len(input0.demand), j) # Num(0)

(* C5: confidence-band tie-break, per quarter *)

\* the band C5 prescribes for the j-th appended quarter
C5Expected(j) ==
  LET label == AppendedLabel(j)
      d == AppendedTo(heap[loc.demand], Len(input0.demand), j)
  IN IF SuppliesBand(base.forecast, label) THEN SuppliedBand(base.forecast, label)
     ELSE IF SuppliesBand(opts.mlForecast, label) THEN SuppliedBand(opts.mlForecast, label)
     ELSE ResolveBand(NoEntry, NoEntry, d, ctx.lastSpread)

\* C5: when the base carries a band, every appended lower/upper pair is the
\* base.forecast CI entry for its label, else the mlForecast CI entry, else a
\* band derived from the appended demand.
C5_BandTieBreak ==
  (InCall /\ BaseHasBand) => \A j \in 1..AppendedCount :
    /\ AppendedTo(heap[loc.lower.ref], Len(input0.ci.lower.v), j) = C5Expected(j).lower
    /\ AppendedTo(heap[loc.upper.ref], Len(input0.ci.upper.v), j) = C5Expected(j).upper

\* a returned call with a quarter whose value came from the secondary model and
\* whose band came from base.forecast, and a quarter with a derived band
C5_Witness ==
  /\ pc = "done" /\ BaseHasBand
  /\ \E j \in 1..AppendedCount :
       /\ ~Supplies(base.forecast, AppendedLabel(j))
       /\ Supplies(opts.mlForecast, AppendedLabel(j))
       /\ SuppliesBand(base.forecast, AppendedLabel(j))
  /\ \E j \in 1..AppendedCount :
       /\ ~SuppliesBand(base.forecast, AppendedLabel(j))
       /\ ~SuppliesBand(opts.mlForecast, AppendedLabel(j))

(* C6: extension bounds *)

\* C6 as stated: for a numeric maxFutureQuarters >= 0 the number of appended
\* quarters never exceeds it, and no appended quarter lies beyond targetYear.
C6_ExtensionBounds ==
  InCall =>
    /\ (IsFinite(opts.maxFutureQuarters) /\ ~Less(opts.maxFutureQuarters, Num(0)))
         => LessEq(Num(AppendedCount), opts.maxFutureQuarters)
    /\ \A j \in 1..AppendedCount :
         LessEq(Num(ReadCanonical(AppendedLabel(j)).year),
                Coalesce(opts.targetYear, Num(DefaultTargetYear)))

(* C7: appended quarters are consecutive and canonical *)

Q1To4Of2025 ==
  << <<"Q", "1", " ", "2", "0", "2", "5">>, <<"Q", "2", " ", "2", "0", "2", "5">>,
     <<"Q", "3", " ", "2", "0", "2", "5">>, <<"Q", "4", " ", "2", "0", "2", "5">> >>

\* the call of the example: a base ending at Q4 2024, targetYear 2025, cap 4
C7Example ==
  /\ call = 1
  /\ input0.labels[BaseCount] = <<"Q", "4", " ", "2", "0", "2", "4">>
  /\ opts.targetYear = Num(2025)
  /\ opts.maxFutureQuarters = Num(4)

\* C7: the i-th appended label is 'Q<q> <yyyy>' of the quarter with key
\* anchorKey + i; the example call returns exactly Q1..Q4 2025 appended.
C7_ConsecutiveCanonical ==
  InCall =>
    /\ \A j \in 1..AppendedCount :
         LET quarter == QuarterOfKey(AnchorQuarter.key + j)
         IN /\ AppendedLabel(j) = <<"Q">> \o IntToStr(quarter.quarter) \o <<" ">>
                                    \o IntToStr(quarter.year)
            /\ AppendedLabel(j) = formatQuarter(quarter.year, quarter.quarter)
    /\ (pc = "done" /\ BaseCount > 0 /\ C7Example)
         => SubSeq(LabelsNow, BaseCount + 1, Len(LabelsNow)) = Q1To4Of2025

\* the example call has returned
C7_Witness ==
  pc = "done" /\ BaseCount > 0 /\ C7Example /\ AppendedCount = 4

(* C8: no error outcome *)

\* C8 as stated: the call never ends in an error.
C8_NeverRaises ==
  pc # "error"

(* C9: no-op without an anchor *)

\* the base has no label, or its last label holds no quarter
NoAnchor ==
  \/ BaseCount = 0
  \/ input0.labels[BaseCount] \in UnparsableLabels
  \/ parseQuarter(input0.labels[BaseCount]) = NullQuarter

\* C9: without an anchor the returned labels, estimate, demand and supply equal the
\* base's, and so does ci when the result has one; nothing is appended.
C9_NoAnchorNoop ==
  (pc = "done" /\ NoAnchor) =>
    LET r == ResultOf(heap, loc) IN
    /\ r.labels = input0.labels
    /\ r.estimate = input0.estimate
    /\ r.demand = input0.demand
    /\ r.supply = input0.supply
    /\ (BaseHasBand => r.ci = CiOf(input0.ci.lower, input0.ci.upper))
    /\ (~BaseHasBand => r.ci = NoCi)
    /\ added = 0

\* a call on a base with a band and forecasts, whose last label is no quarter, returned
C9_Witness ==
  /\ pc = "done" /\ call = 1 /\ BaseCount > 0 /\ BaseHasBand
  /\ input0.labels[BaseCount] = LabelQuarterFive
  /\ base.forecast = ForecastFull

(* C10: the input is not mutated *)

\* C10: at every step the caller's arrays, base.forecast and opts.mlForecast hold
\* what they held when the call began.
C10_InputUntouched ==
  InputOf(heap, base, opts) = input0

\* a call that appended quarters to arrays with a band and returned
C10_Witness ==
  pc = "done" /\ call = 1 /\ BaseHasBand /\ AppendedCount >= 4

----------------------------------------------------------------------------
(* C11: the base is an unchanged prefix of the extended series *)

\* the first n elements of an array
Prefix(arr, n) == SubSeq(arr, 1, n)

\* a label of the base history for which the explicit or the ML forecast supplies
\* a finite value other than the base demand of that label
BaseLabelForecast ==
  \E i \in 1..Min2(BaseCount, Len(input0.demand)) :
    \E source \in {input0.forecast, input0.mlForecast} :
      /\ Supplies(source, input0.labels[i])
      /\ SuppliedValue(source, input0.labels[i]) # input0.demand[i]

\* C11: while the call appends and when it returns, every array of the series
\* begins with the elements the base array held when the call began, whatever the
\* forecast sources say about the labels of the base.
C11_BasePrefix ==
  pc \in {"loop", "done"} =>
    /\ Prefix(LabelsNow, BaseCount) = input0.labels
    /\ Prefix(heap[loc.estimate], Len(input0.estimate)) = input0.estimate
    /\ Prefix(heap[loc.demand], Len(input0.demand)) = input0.demand
    /\ Prefix(heap[loc.supply], Len(input0.supply)) = input0.supply
    /\ BaseHasBand =>
         /\ loc.lower.t = "arr" /\ loc.upper.t = "arr"
         /\ Prefix(heap[loc.lower.ref], Len(input0.ci.lower.v)) = input0.ci.lower.v
         /\ Prefix(heap[loc.upper.ref], Len(input0.ci.upper.v)) = input0.ci.upper.v

\* a returned series with appended quarters and a band, although a
\* forecast source held another value for a label of the base
C11_Witness ==
  /\ pc = "done"
  /\ AppendedCount >= 2
  /\ BaseHasBand
  /\ BaseLabelForecast

----------------------------------------------------------------------------
(* C12: the arrays of the returned series stay aligned *)

\* labels, estimate, demand, supply and the arrays of ci that are present had one length
BaseAligned ==
  /\ Len(input0.estimate) = BaseCount
  /\ Len(input0.demand) = BaseCount
  /\ Len(input0.supply) = BaseCount
  /\ input0.ci.lower.t = "arr" => Len(input0.ci.lower.v) = BaseCount
  /\ input0.ci.upper.t = "arr" => Len(input0.ci.upper.v) = BaseCount

\* C12: for a base whose arrays have one length, after every appended quarter and
\* in the returned series, estimate, demand, supply and the tracked band are as
\* long as labels.
C12_Aligned ==
  (pc \in {"loop", "done"} /\ BaseAligned) =>
    /\ Len(heap[loc.estimate]) = Len(LabelsNow)
    /\ Len(heap[loc.demand]) = Len(LabelsNow)
    /\ Len(heap[loc.supply]) = Len(LabelsNow)
    /\ (loc.lower.t = "arr" /\ loc.upper.t = "arr") =>
         /\ Len(heap[loc.lower.ref]) = Len(LabelsNow)
         /\ Len(heap[loc.upper.ref]) = Len(LabelsNow)

\* a returned banded series with an appended quarter for which neither source held a band
C12_Witness ==
  /\ pc = "done"
  /\ BaseAligned
  /\ BaseHasBand
  /\ \E j \in 1..AppendedCount :
       /\ ~SuppliesBand(input0.forecast, AppendedLabel(j))
       /\ ~SuppliesBand(input0.mlForecast, AppendedLabel(j))
       /\ Len(heap[loc.lower.ref]) = BaseCount + AppendedCount

----------------------------------------------------------------------------
(* C13: the Quarter parsed from 'Q3 2024' *)

\* a call of the function named f has returned
HasReturned(f) == fn = f /\ res.t = "returned"

LabelQ3Of2024 == <<"Q", "3", " ", "2", "0", "2", "4">>

\* C13 as stated: parseQuarter("Q3 2024") returns {year: 2024, quarter: 3, key: 8099}.
C13_Key8099 ==
  (HasReturned("parseQuarter") /\ arg = LabelQ3Of2024) =>
    res.v = [year |-> 2024, quarter |-> 3, key |-> 8099]

\* C13 amended: parseQuarter("Q3 2024") returns {year: 2024, quarter: 3, key: 8098},
\* the key being year * 4 + (quarter - 1).
C13_Key8098 ==
  (HasReturned("parseQuarter") /\ arg = LabelQ3Of2024) =>
    res.v = [year |-> 2024, quarter |-> 3, key |-> 8098]

\* parseQuarter("Q3 2024") has returned a Quarter
C13_Witness ==
  HasReturned("parseQuarter") /\ arg = LabelQ3Of2024 /\ res.v.quarter = 3

----------------------------------------------------------------------------
(* C14: the label formats parseQuarter accepts *)

\* the labels that write quarter digit d and year yyyy in one of the formats
LabelsOf(d, yyyy) ==
  { QuarterFirst(t, d, sep, yyyy) : t \in {"Q", "q"}, sep \in Separators } \cup
  { YearFirst(t, d, sep, yyyy) : t \in {"Q", "q"}, sep \in Separators }

\* C14: a label that writes a quarter 1..4 and a four-digit year, quarter first or
\* year first, with '-', '/' or blanks between them, with 'Q' or 'q', parses to
\* the year written, the quarter written and the key year * 4 + (quarter - 1).
C14_FormatEquivalence ==
  HasReturned("parseQuarter") =>
    \A d \in {"1", "2", "3", "4"}, yyyy \in YearTexts \ {<<"0", "0", "0", "0">>} :
      arg \in LabelsOf(d, yyyy) =>
        res.v = [year |-> StrToInt(yyyy), quarter |-> DigitVal(d),
                 key |-> StrToInt(yyyy) * 4 + (DigitVal(d) - 1)]

\* '2025 - q2' has been parsed to quarter 2 of 2025
C14_Witness ==
  /\ HasReturned("parseQuarter")
  /\ arg = <<"2", "0", "2", "5", " ", "-", " ", "q", "2">>
  /\ res.v = [year |-> 2025, quarter |-> 2, key |-> 8101]

----------------------------------------------------------------------------
(* C15: labels that parseQuarter rejects *)

\* the empty string, free text, a year of fewer than four digits, a quarter
\* token without digit or without year, a quarter digit 0 or 5..9
NoQuarterLabels ==
  { <<>>, LabelGarbage, LabelShortYear, <<"2", "0", "2", " ", "Q", "1">>,
    <<"Q", "1", " ", "2", "4">>, <<"Q", "3">>, <<"2", "0", "2", "4">>,
    <<"Q", " ", "2", "0", "2", "4">> } \cup
  UNION { LabelsOf(d, yyyy) : d \in {"0", "5", "6", "7", "8", "9"}, yyyy \in YearTexts }

\* C15: parseQuarter returns null for each of these labels, and a Quarter it
\* returns for any label has quarter in 1..4.
C15_NullOrQuarter1To4 ==
  HasReturned("parseQuarter") =>
    /\ arg \in NoQuarterLabels => res.v = NullQuarter
    /\ res.v # NullQuarter => res.v.quarter \in 1..4

\* '2024/Q0' has been parsed to null
C15_Witness ==
  /\ HasReturned("parseQuarter")
  /\ arg = <<"2", "0", "2", "4", "/", "Q", "0">>
  /\ res.v = NullQuarter

----------------------------------------------------------------------------
(* C16: nextQuarter is the successor on keys *)

\* C16: for a Quarter with quarter in 1..4 and key = year * 4 + (quarter - 1),
\* nextQuarter returns a Quarter with quarter in 1..4, with the key of its own
\* year and quarter, which is the input's key plus one; quarter 4 goes to quarter
\* 1 of the next year, every other quarter keeps its year.
C16_Successor ==
  HasReturned("nextQuarter") =>
    /\ res.v.quarter \in 1..4
    /\ res.v.key = res.v.year * 4 + (res.v.quarter - 1)
    /\ res.v.key = arg.key + 1
    /\ arg.quarter = 4 => res.v.year = arg.year + 1 /\ res.v.quarter = 1
    /\ arg.quarter # 4 => res.v.year = arg.year

\* nextQuarter of quarter 4 of 2024 has returned
C16_Witness ==
  /\ HasReturned("nextQuarter")
  /\ arg = [year |-> 2024, quarter |-> 4, key |-> 8099]
  /\ res.v = [year |-> 2025, quarter |-> 1, key |-> 8100]

----------------------------------------------------------------------------
(* C17: averageRatio is the mean of the valid ratios *)

\* the sum of the numbers f[i], i in S
RECURSIVE SumFun(_, _)
SumFun(f, S) ==
  IF S = {} THEN Num(0)
  ELSE LET i == CHOOSE i \in S : TRUE IN Add(f[i], SumFun(f, S \ {i}))

\* the positions below the shorter length with a finite numerator and a finite,
\* non-zero denominator
ValidPositions(numerators, denominators) ==
  { i \in 1..Len(numerators) :
      /\ i <= Len(denominators)
      /\ IsFinite(numerators[i])
      /\ IsFinite(denominators[i])
      /\ denominators[i] # Num(0) }

\* C17: averageRatio returns undefined exactly when no position is valid, and
\* otherwise the sum of numerator / denominator over the valid positions
\* divided by their number; averageRatio([10, 20], [5, 0]) is 2.
C17_MeanOfValidRatios ==
  HasReturned("averageRatio") =>
    LET valid == ValidPositions(arg.numerators, arg.denominators)
        ratio == [i \in valid |-> Div(arg.numerators[i], arg.denominators[i])]
    IN /\ res.v = Undefined <=> valid = {}
       /\ valid # {} => res.v = Div(SumFun(ratio, valid), Num(Cardinality(valid)))
       /\ (arg.numerators = Nums(<<10, 20>>) /\ arg.denominators = Nums(<<5, 0>>)) =>
            res.v = Num(2)

\* averageRatio([10, 20], [5, 0]) has returned 2
C17_Witness ==
  /\ HasReturned("averageRatio")
  /\ arg = [numerators |-> Nums(<<10, 20>>), denominators |-> Nums(<<5, 0>>)]
  /\ res.v = Num(2)

----------------------------------------------------------------------------
(* C18: projectNextValue *)

\* C18: projectNextValue returns 0 for a series without finite value, the finite
\* value of a series with one, and otherwise max(0, last + slope), the slope
\* being the mean of the differences between consecutive values among the last
\* (at most four) finite values; [10, 12, 11, 13] gives 14 and [5] gives 5.
C18_Projection ==
  HasReturned("projectNextValue") =>
    LET finite == SelectSeq(arg, IsFinite)
        n == Len(finite)
        k == IF n < 4 THEN n ELSE 4
        window == SubSeq(finite, n - k + 1, n)
        diff == [i \in 1..(k - 1) |-> Sub(window[i + 1], window[i])]
    IN /\ n = 0 => res.v = Num(0)
       /\ n = 1 => res.v = finite[1]
       /\ n >= 2 => res.v = MathMax(Num(0), Add(finite[n],
                                                Div(SumFun(diff, 1..(k - 1)), Num(k - 1))))
       /\ arg = Nums(<<10, 12, 11, 13>>) => res.v = Num(14)
       /\ arg = Nums(<<5>>) => res.v = Num(5)

\* a series of four finite values between non-finite ones has been projected to 14
C18_Witness ==
  /\ HasReturned("projectNextValue")
  /\ arg = <<Num(10), NaN, Num(12), Num(11), PosInf, Num(13)>>
  /\ res.v = Num(14)

----------------------------------------------------------------------------
(* C19: the year aggregation and the totals *)

\* the first four consecutive digits of a label that has them
CarriesYear(label) == \E i \in 1..Len(label) : FourDigits(label, i)
YearText(label) ==
  LET i == CHOOSE h \in 1..Len(label) :
             FourDigits(label, h) /\ \A g \in 1..(h - 1) : ~FourDigits(label, g)
  IN SubSeq(label, i, i + 3)

\* a series of quarters whose labels all carry a year has been aggregated
YearSeriesAggregated ==
  /\ HasReturned("aggregateToYear")
  /\ \A i \in 1..Len(arg.labels) : CarriesYear(arg.labels[i])

\* such a series whose estimate, demand, supply and band values are all finite
FiniteSeriesAggregated ==
  /\ YearSeriesAggregated
  /\ \A arr \in {arg.estimate, arg.demand, arg.supply, arg.ci.lower.v, arg.ci.upper.v} :
       \A i \in 1..Len(arr) : IsFinite(arr[i])

\* the years of the series, the quarters of a year, the bucket of a year
YearsOfSeries == { YearText(arg.labels[i]) : i \in 1..Len(arg.labels) }
QuartersOfYear(y) == { i \in 1..Len(arg.labels) : YearText(arg.labels[i]) = y }
BucketOf(y) == CHOOSE k \in 1..Len(res.v.labels) : res.v.labels[k] = y

\* the sum of the elements of arr at the positions in S, a missing element counting 0
SumAt(arr, S) == SumFun([i \in S |-> IF i <= Len(arr) THEN arr[i] ELSE Num(0)], S)

\* there is one bucket for every year of the series, and no other
OneBucketPerYear ==
  /\ Len(res.v.labels) = Cardinality(YearsOfSeries)
  /\ { res.v.labels[k] : k \in 1..Len(res.v.labels) } = YearsOfSeries

\* C19 as stated: every bucket is the sum of the quarters of its year, and the
\* buckets add up to the sum of all quarterly values, for estimate, demand,
\* supply and both arrays of the band.
C19_Conserved ==
  FiniteSeriesAggregated =>
    /\ OneBucketPerYear
    /\ \A y \in YearsOfSeries :
         /\ res.v.estimate[BucketOf(y)] = SumAt(arg.estimate, QuartersOfYear(y))
         /\ res.v.demand[BucketOf(y)] = SumAt(arg.demand, QuartersOfYear(y))
         /\ res.v.supply[BucketOf(y)] = SumAt(arg.supply, QuartersOfYear(y))
    /\ SumSeq(res.v.estimate) = SumAt(arg.estimate, 1..Len(arg.labels))
    /\ SumSeq(res.v.demand) = SumAt(arg.demand, 1..Len(arg.labels))
    /\ SumSeq(res.v.supply) = SumAt(arg.supply, 1..Len(arg.labels))
    /\ arg.ci.t = "obj" =>
         /\ SumSeq(res.v.band.lower.v) = SumAt(arg.ci.lower.v, 1..Len(arg.labels))
         /\ SumSeq(res.v.band.upper.v) = SumAt(arg.ci.upper.v, 1..Len(arg.labels))

\* r is x rounded to thousandths, a half rounded up
IsRounded(r, x) ==
  /\ Mul(r, Num(1000)).d = 1
  /\ Less(Sub(x, Frac(1, 2000)), r)
  /\ LessEq(r, Add(x, Frac(1, 2000)))

\* a and b differ by at most n two-thousandths
Within(a, b, n) == LessEq(MathAbs(Sub(a, b)), Frac(n, 2000))

\* C19 amended: every estimate, demand and supply bucket is the sum of the
\* quarters of its year rounded to thousandths, every band bucket is that sum
\* itself; the buckets of the band add up to the sum of all quarterly values, and
\* those of estimate, demand and supply do up to 0.0005 for each year.
C19_ConservedUpToRounding ==
  FiniteSeriesAggregated =>
    /\ OneBucketPerYear
    /\ \A y \in YearsOfSeries :
         /\ IsRounded(res.v.estimate[BucketOf(y)], SumAt(arg.estimate, QuartersOfYear(y)))
         /\ IsRounded(res.v.demand[BucketOf(y)], SumAt(arg.demand, QuartersOfYear(y)))
         /\ IsRounded(res.v.supply[BucketOf(y)], SumAt(arg.supply, QuartersOfYear(y)))
         /\ arg.ci.t = "obj" =>
              /\ res.v.band.lower.v[BucketOf(y)] = SumAt(arg.ci.lower.v, QuartersOfYear(y))
              /\ res.v.band.upper.v[BucketOf(y)] = SumAt(arg.ci.upper.v, QuartersOfYear(y))
    /\ Within(SumSeq(res.v.estimate), SumAt(arg.estimate, 1..Len(arg.labels)),
              Cardinality(YearsOfSeries))
    /\ Within(SumSeq(res.v.demand), SumAt(arg.demand, 1..Len(arg.labels)),
              Cardinality(YearsOfSeries))
    /\ Within(SumSeq(res.v.supply), SumAt(arg.supply, 1..Len(arg.labels)),
              Cardinality(YearsOfSeries))
    /\ arg.ci.t = "obj" =>
         /\ SumSeq(res.v.band.lower.v) = SumAt(arg.ci.lower.v, 1..Len(arg.labels))
         /\ SumSeq(res.v.band.upper.v) = SumAt(arg.ci.upper.v, 1..Len(arg.labels))

\* a banded series over two years has been aggregated, and a bucket of estimate
\* is not the sum of its quarters
C19_Witness ==
  /\ FiniteSeriesAggregated
  /\ arg.ci.t = "obj"
  /\ Cardinality(YearsOfSeries) = 2
  /\ Len(arg.labels) = 3
  /\ \E y \in YearsOfSeries :
       res.v.estimate[BucketOf(y)] # SumAt(arg.estimate, QuartersOfYear(y))

----------------------------------------------------------------------------
(* C20: the appended estimate and supply follow the ratio of the base history *)

\* the value the claim gives the j-th appended element of a series: the ratio
\* of the base history to the base demand, when defined, times the appended
\* demand and not below 0; else the projection of the series so far
ByRatio(baseSeries, seriesNow, j) ==
  LET ratio == averageRatio(baseSeries, input0.demand)
      demand == AppendedTo(heap[loc.demand], Len(input0.demand), j)
  IN IF ratio # Undefined THEN MathMax(Num(0), Mul(demand, ratio))
     ELSE projectNextValue(Prefix(seriesNow, Len(baseSeries) + j - 1))

\* C20: every appended estimate is max(0, demand * ratioEstimate) whenever
\* ratioEstimate is defined, 0 included, and the projection of the estimates so
\* far only when it is undefined; likewise every appended supply with ratioSupply.
C20_RatioWhenDefined ==
  pc \in {"loop", "done"} =>
    \A j \in 1..AppendedCount :
      /\ AppendedTo(heap[loc.estimate], Len(input0.estimate), j)
           = ByRatio(input0.estimate, heap[loc.estimate], j)
      /\ AppendedTo(heap[loc.supply], Len(input0.supply), j)
           = ByRatio(input0.supply, heap[loc.supply], j)

----------------------------------------------------------------------------
(* C21: the band derived for a quarter without CI entry *)

\* the j-th appended quarter has a band, and neither source holds one for its label
DerivedBand(j) ==
  /\ BaseHasBand
  /\ ~SuppliesBand(input0.forecast, AppendedLabel(j))
  /\ ~SuppliesBand(input0.mlForecast, AppendedLabel(j))

\* demand, lower and upper bound appended for the j-th quarter
DemandOf(j) == AppendedTo(heap[loc.demand], Len(input0.demand), j)
LowerOf(j) == AppendedTo(heap[loc.lower.ref], Len(input0.ci.lower.v), j)
UpperOf(j) == AppendedTo(heap[loc.upper.ref], Len(input0.ci.upper.v), j)

\* the base's last upper bound minus its last demand, not below 0; 0 without band values
BaseLastSpread ==
  LET LastOrZero(arr) == IF arr = <<>> THEN Num(0) ELSE arr[Len(arr)]
  IN IF BaseHasBand /\ input0.ci.lower.v # <<>> /\ input0.ci.upper.v # <<>>
     THEN MathMax(Num(0), Sub(LastOrZero(input0.ci.upper.v), LastOrZero(input0.demand)))
     ELSE Num(0)

----------------------------------------------------------------------------
(* C22: appended values are finite *)

\* C22: every value appended to demand, estimate, supply, ci.lower and ci.upper
\* is a finite number, whatever the base arrays and the forecast sources hold.
C22_AppendedFinite ==
  pc \in {"loop", "done"} =>
    \A j \in 1..AppendedCount :
      /\ IsFinite(DemandOf(j))
      /\ IsFinite(AppendedTo(heap[loc.estimate], Len(input0.estimate), j))
      /\ IsFinite(AppendedTo(heap[loc.supply], Len(input0.supply), j))
      /\ BaseHasBand => IsFinite(LowerOf(j)) /\ IsFinite(UpperOf(j))

----------------------------------------------------------------------------
(* C23: projections are not negative *)

\* C23: projectNextValue returns no negative number, whatever the series.
C23_NonNegative ==
  HasReturned("projectNextValue") => LessEq(Num(0), res.v)

----------------------------------------------------------------------------
(* C24: one bucket per year, whatever the order of the quarters *)

\* the series x with its quarters in the order p[1], p[2], ...
Reordered(x, p) ==
  [labels |-> [i \in DOMAIN p |-> x.labels[p[i]]],
   estimate |-> [i \in DOMAIN p |-> x.estimate[p[i]]],
   demand |-> [i \in DOMAIN p |-> x.demand[p[i]]],
   supply |-> [i \in DOMAIN p |-> x.supply[p[i]]],
   ci |-> IF x.ci.t = "obj"
          THEN CiOf(Arr([i \in DOMAIN p |-> x.ci.lower.v[p[i]]]),
                    Arr([i \in DOMAIN p |-> x.ci.upper.v[p[i]]]))
          ELSE x.ci]

\* the orders of n quarters
Orders(n) == { p \in [1..n -> 1..n] : \A i, k \in 1..n : p[i] = p[k] => i = k }

\* every array of the series has an element for every label
EveryQuarterComplete ==
  /\ Len(arg.estimate) = Len(arg.labels)
  /\ Len(arg.demand) = Len(arg.labels)
  /\ Len(arg.supply) = Len(arg.labels)
  /\ arg.ci.t = "obj" =>
       Len(arg.ci.lower.v) = Len(arg.labels) /\ Len(arg.ci.upper.v) = Len(arg.labels)

\* C24: the aggregated labels hold every year of the series once, in ascending
\* order; estimate, demand, supply and the band arrays are as long as the
\* labels; and the quarters given in any other order aggregate to the same result.
C24_BucketPerYearAnyOrder ==
  YearSeriesAggregated =>
    /\ OneBucketPerYear
    /\ \A k \in 1..(Len(res.v.labels) - 1) :
         StrToInt(res.v.labels[k]) < StrToInt(res.v.labels[k + 1])
    /\ Len(res.v.estimate) = Len(res.v.labels)
    /\ Len(res.v.demand) = Len(res.v.labels)
    /\ Len(res.v.supply) = Len(res.v.labels)
    /\ arg.ci.t = "obj" =>
         /\ Len(res.v.band.lower.v) = Len(res.v.labels)
         /\ Len(res.v.band.upper.v) = Len(res.v.labels)
    /\ EveryQuarterComplete =>
         \A p \in Orders(Len(arg.labels)) : AggregateToYear(Reordered(arg, p)) = res.v

----------------------------------------------------------------------------
(* C25: how far the extension reaches, and that it ends *)

\* the call has a finite targetYear, given or by default
FiniteTargetYear == IsFinite(Coalesce(opts.targetYear, Num(DefaultTargetYear)))

\* the number of quarters C25 prescribes for a call with the anchor (y, q):
\* min(m, max(0, 4 * (targetYear - y) + (4 - q))), m the floor of a positive
\* maxFutureQuarters and no limit otherwise
ReachOf(anchor) ==
  LET targetYear == Coalesce(opts.targetYear, Num(DefaultTargetYear)).n
      m == opts.maxFutureQuarters
      toYearEnd == 4 * (targetYear - anchor.year) + (4 - anchor.quarter)
      reach == IF toYearEnd < 0 THEN 0 ELSE toYearEnd
  IN IF m.t = "num" /\ m.n > 0 THEN Min2(m.n \div m.d, reach) ELSE reach

\* the call returned from its loop
ReturnedFromLoop == pc = "done" /\ exit \in {"while", "cap", "year"}

\* the quarters the loop of the running call has still to append
Remaining == ReachOf(AnchorQuarter) - added

----------------------------------------------------------------------------
(* C26: the order of a derived band *)

\* C26: every appended quarter with a derived band has
\* 0 <= lower <= appended demand <= upper, whatever demand value it received.
C26_BandOrdered ==
  pc \in {"loop", "done"} =>
    \A j \in 1..AppendedCount : DerivedBand(j) =>
      /\ LessEq(Num(0), LowerOf(j))
      /\ LessEq(LowerOf(j), DemandOf(j))
      /\ LessEq(DemandOf(j), UpperOf(j))

----------------------------------------------------------------------------
(* App: upload, filtered metrics and training poll *)

\* the functions of lib/time are not running while the App's handlers are
libVars == <<heap, base, opts, loc, ctx, pointer, added, pc, exit, call, input0, first,
             fn, arg, res>>

MaxInFlight == 2
MaxRequests == 3
MaxInstances == 3

\* a file is chosen in the dialog or dropped
ChooseFile ==
  /\ file = FALSE
  /\ file' = TRUE
  /\ UNCHANGED <<data, loading, derived, filters, training, trainingSets, uploading,
                 sampling, metricsDeps, requests, pollDeps, instances, libVars>>

\* 'Upload & Preview', enabled when a file is chosen and loading is false
OnSubmit ==
  /\ file /\ ~loading
  /\ uploading + sampling < MaxInFlight
  /\ data' = 0
  /\ derived' = "null"
  /\ training' = "null"
  /\ trainingSets' = 1 - trainingSets
  /\ loading' = TRUE
  /\ uploading' = uploading + 1
  /\ UNCHANGED <<file, filters, sampling, metricsDeps, requests, pollDeps, instances, libVars>>

\* uploadFile settles: try / catch / finally of onSubmit and of useSample; json is
\* a new object, and json.training is absent, without records, with a record that
\* is running, or with records that are all finished
UploadSettles ==
  /\ uploading > 0
  /\ uploading' = uploading - 1
  /\ \/ \E t \in {"null", "empty", "running", "done"} :
          /\ data' = IF data = 1 THEN 2 ELSE 1
          /\ training' = t
          /\ trainingSets' = 1 - trainingSets
     \/ UNCHANGED <<data, training, trainingSets>>
  /\ loading' = FALSE
  /\ UNCHANGED <<file, derived, filters, sampling, metricsDeps, requests, pollDeps,
                 instances, libVars>>

\* 'Reset'; the /metrics requests in flight are noted as made before it
Reset ==
  /\ file' = FALSE
  /\ data' = 0
  /\ derived' = "null"
  /\ training' = "null"
  /\ trainingSets' = 1 - trainingSets
  /\ filters' = "{}"
  /\ requests' = [k \in 1..Len(requests) |->
                    IF requests[k].state = "inflight"
                    THEN [requests[k] EXCEPT !.reset = TRUE] ELSE requests[k]]
  /\ UNCHANGED <<loading, uploading, sampling, metricsDeps, pollDeps, instances, libVars>>

\* 'Use Sample': fetch("/sample.csv") is sent
UseSample ==
  /\ uploading + sampling < MaxInFlight
  /\ sampling' = sampling + 1
  /\ UNCHANGED <<file, data, loading, derived, filters, training, trainingSets, uploading,
                 metricsDeps, requests, pollDeps, instances, libVars>>

\* the sample arrives and is uploaded, or its fetch fails: catch and finally
SampleSettles ==
  /\ sampling > 0
  /\ sampling' = sampling - 1
  /\ \/ /\ file' = TRUE
        /\ loading' = TRUE
        /\ uploading' = uploading + 1
     \/ /\ loading' = FALSE
        /\ UNCHANGED <<file, uploading>>
  /\ UNCHANGED <<data, derived, filters, training, trainingSets, metricsDeps, requests,
                 pollDeps, instances, libVars>>

\* the FiltersBar, rendered when there is data, reports other filters; they are
\* written as JSON.stringify(filters) gives them
SetFilters ==
  /\ data # 0
  /\ \E f \in {"{}", "{area:A}", "{area:B}"} \ {filters} : filters' = f
  /\ UNCHANGED <<file, data, loading, derived, training, trainingSets, uploading, sampling,
                 metricsDeps, requests, pollDeps, instances, libVars>>

\* the dependencies of the metrics effect: [JSON.stringify(filters), !!data]
MetricsDepsNow == <<filters, data # 0>>

\* the metrics effect runs after a render in which its dependencies changed
MetricsEffect ==
  /\ metricsDeps # MetricsDepsNow
  /\ metricsDeps' = MetricsDepsNow
  /\ IF data = 0
       THEN UNCHANGED requests
       ELSE /\ Len(requests) < MaxRequests
            /\ requests' = Append(requests, [filters |-> filters, state |-> "inflight",
                                             reset |-> FALSE])
  /\ UNCHANGED <<file, data, loading, derived, filters, training, trainingSets, uploading,
                 sampling, pollDeps, instances, libVars>>

\* a /metrics request settles: with res.ok, or with another status or an error
MetricsSettles ==
  \E k \in 1..Len(requests) :
    /\ requests[k].state = "inflight"
    /\ \/ /\ requests' = [requests EXCEPT ![k].state = "ok"]
          /\ derived' = requests[k].filters
       \/ /\ requests' = [requests EXCEPT ![k].state = "failed"]
          /\ UNCHANGED derived
    /\ UNCHANGED <<file, data, loading, filters, training, trainingSets, uploading, sampling,
                   metricsDeps, pollDeps, instances, libVars>>

\* an instance that tests nothing before it acts
DisposedNever(i) == FALSE

\* the flag `disposed` of the i-th instance of the training-poll effect
Disposed(i) == instances[i].disposed

\* the dependencies of the training-poll effect:
\* [data, training?.real?.status, training?.augmented?.status]
PollDepsNow == <<data, IF training \in {"null", "empty"} THEN "undefined" ELSE training>>

\* the training-poll effect runs after a render in which its dependencies changed:
\* the cleanup of the instance in use, then the effect
PollEffect ==
  LET hasTraining == training \in {"running", "done"}
      cleaned == [i \in 1..Len(instances) |->
                    IF instances[i].disposed THEN instances[i]
                    ELSE [instances[i] EXCEPT !.disposed = TRUE, !.timer = FALSE]]
  IN /\ pollDeps # PollDepsNow
     /\ pollDeps' = PollDepsNow
     /\ IF data = 0
          THEN instances' = cleaned
          ELSE /\ Len(instances) < MaxInstances
               /\ instances' = Append(cleaned,
                                      [disposed |-> FALSE,
                                       timer |-> ~hasTraining \/ training = "running",
                                       fetching |-> FALSE])
     /\ UNCHANGED <<file, data, loading, derived, filters, training, trainingSets, uploading,
                    sampling, metricsDeps, requests, libVars>>

\* the timer of an instance fires: its callback calls fetchTrainingResults
TimerFires ==
  \E i \in 1..Len(instances) :
    /\ instances[i].timer
    /\ instances' = [instances EXCEPT ![i].timer = FALSE, ![i].fetching = TRUE]
    /\ UNCHANGED <<file, data, loading, derived, filters, training, trainingSets, uploading,
                   sampling, metricsDeps, requests, pollDeps, libVars>>

\* fetchTrainingResults settles and the callback goes on after its await
FetchSettles ==
  \E i \in 1..Len(instances) :
    /\ instances[i].fetching
    /\ \/ \E latest \in {"empty", "running", "done"} :
            IF Disposed(i)
              THEN /\ instances' = [instances EXCEPT ![i].fetching = FALSE]
                   /\ UNCHANGED <<training, trainingSets>>
              ELSE /\ training' = latest
                   /\ trainingSets' = 1 - trainingSets
                   /\ instances' = [instances EXCEPT ![i].fetching = FALSE,
                                                     ![i].timer = (latest = "running")]
       \/ /\ instances' = [instances EXCEPT ![i].fetching = FALSE,
                                            ![i].timer = ~Disposed(i)]
          /\ UNCHANGED <<training, trainingSets>>
    /\ UNCHANGED <<file, data, loading, derived, filters, uploading, sampling,
                   metricsDeps, requests, pollDeps, libVars>>

\* the effect that loads the training results once, when there is data and no
\* training: its fetch resolves with data and training as they were
TrainingLoaded ==
  /\ data # 0
  /\ training = "null"
  /\ \E latest \in {"empty", "running", "done"} : training' = latest
  /\ trainingSets' = 1 - trainingSets
  /\ UNCHANGED <<file, data, loading, derived, filters, uploading, sampling,
                 metricsDeps, requests, pollDeps, instances, libVars>>

InitApp == NotCalled /\ fn = "App" /\ arg = NoArg /\ res = NotReturned /\ AppMounted

\* the upload handlers
NextUpload ==
  \/ ChooseFile \/ OnSubmit \/ UploadSettles \/ Reset \/ UseSample \/ SampleSettles

SpecUpload == InitApp /\ [][NextUpload]_vars

\* uploads of a chosen file and filtered metrics; React runs a pending effect
\* before it renders the next update of the state
NextMetrics ==
  \/ MetricsEffect
  \/ metricsDeps = MetricsDepsNow /\ ChooseFile
  \/ metricsDeps = MetricsDepsNow /\ OnSubmit
  \/ metricsDeps = MetricsDepsNow /\ UploadSettles
  \/ metricsDeps = MetricsDepsNow /\ Reset
  \/ metricsDeps = MetricsDepsNow /\ SetFilters
  \/ metricsDeps = MetricsDepsNow /\ MetricsSettles

SpecMetrics == InitApp /\ [][NextMetrics]_vars

\* uploads and the training poll; a timer and a fetch are not held back by a
\* pending effect, an update of the state by a handler is
NextPoll ==
  \/ PollEffect \/ TimerFires \/ FetchSettles
  \/ pollDeps = PollDepsNow /\ ChooseFile
  \/ pollDeps = PollDepsNow /\ OnSubmit
  \/ pollDeps = PollDepsNow /\ UploadSettles
  \/ pollDeps = PollDepsNow /\ Reset
  \/ pollDeps = PollDepsNow /\ UseSample
  \/ pollDeps = PollDepsNow /\ SampleSettles
  \/ pollDeps = PollDepsNow /\ TrainingLoaded

SpecPoll == InitApp /\ [][NextPoll]_vars

----------------------------------------------------------------------------
(* C27: a disposed instance of the training poll is silent *)

\* the instances whose cleanup has not run
InUse == { i \in 1..Len(instances) : ~instances[i].disposed }

\* C27: once the cleanup of an instance of the training-poll effect has run, the
\* instance has no timer scheduled, and when its fetch settles, resolved or
\* rejected, it neither calls setTraining nor schedules a timer; at most one
\* instance is in use at any time.
C27_DisposedIsSilent ==
  /\ [](\A i \in 1..Len(instances) : instances[i].disposed => ~instances[i].timer)
  /\ [](Cardinality(InUse) <= 1)
  /\ [][\A i \in 1..Len(instances) :
          instances[i].disposed /\ instances[i].fetching /\ ~instances'[i].fetching =>
            /\ trainingSets' = trainingSets
            /\ training' = training
            /\ ~instances'[i].timer]_vars

\* the cleanup of one instance ran while its fetch was in flight, and the next
\* instance is polling
C27_Witness ==
  \E i, j \in 1..Len(instances) :
    /\ instances[i].disposed /\ instances[i].fetching
    /\ ~instances[j].disposed /\ (instances[j].timer \/ instances[j].fetching)

----------------------------------------------------------------------------
(* C28: the loading flag follows the uploads in flight *)

\* C28: loading is true whenever an uploadFile request is in flight, and false
\* when none is.
C28_LoadingTracksUploads ==
  /\ uploading > 0 => loading
  /\ uploading = 0 => ~loading

----------------------------------------------------------------------------
(* C29: derived holds the metrics of the selected filters *)

\* every /metrics request made was answered with res.ok
AllAnswered == requests # <<>> /\ \A k \in 1..Len(requests) : requests[k].state = "ok"

\* C29: when the metrics effect has run for the selected filters and every
\* request was answered, in whatever order, derived holds the response for the
\* selected filters.
C29_LatestFilters ==
  (data # 0 /\ metricsDeps = MetricsDepsNow /\ AllAnswered) => derived = filters

\* C29: the response to a request that was in flight when Reset was clicked
\* leaves derived as it is.
C29_SilentAfterReset ==
  [][\A k \in 1..Len(requests) :
       (requests[k].state = "inflight" /\ requests[k].reset /\ requests'[k].state = "ok")
         => derived' = derived]_vars

\* C29: derived holds the response for the selected filters once every request
\* is answered, and a response that arrives after Reset does not repopulate it.
C29_FreshMetrics == []C29_LatestFilters /\ C29_SilentAfterReset

====
